---- MODULE Spec2Model ----
(***************************************************************************)
(* Session handling of the mgo driver (package mgo, session.go, kept in    *)
(* src/src/github_status/main.go): consistency modes, reservation of       *)
(* pooled sockets by sessions, and the session copy/close life cycle.      *)
(*                                                                         *)
(* Every method body that runs under s.m.Lock() is one atomic action.      *)
(* acquireSocket takes the lock twice (RLock at 3211, Lock at 3228), so it *)
(* is two actions per calling goroutine.  New and Copy run copySession     *)
(* under the original's lock and Refresh on the private copy afterwards;   *)
(* the copy is not visible to any other goroutine before New/Copy return,  *)
(* and the only shared effect of the pair is +1 then -1 on the reference   *)
(* counts of the original's sockets, so they are modelled as one action    *)
(* (the counts the model shows are never above the real ones).             *)
(*                                                                         *)
(* mongoSocket and mongoCluster (socket.go, cluster.go) are not part of    *)
(* the source tree; they are modelled from the collaborator contracts of   *)
(* the specification: reference counts moved by Acquire/Release, and       *)
(* AcquireSocket returning a primary whenever a secondary is not asked.    *)
(***************************************************************************)
EXTENDS Integers, FiniteSets, Sequences, TLC

\* ------------------------------------------------------------------ bounds
NumSessions == 2      \* session slots: the dialed session and its copies
NumThreads  == 2      \* goroutines running operations that need a socket
NumMasters  == 1      \* pooled sockets to the primary
NumSlaves   == 1      \* pooled sockets to secondaries

\* --------------------------------------------------------------- constants
Eventual  == 0
Monotonic == 1
Strong    == 2
defaultPrefetch == 25      \* 0.25, in hundredths

Modes     == {Eventual, Monotonic, Strong}
SessionId == 1..NumSessions
ThreadId  == 1..NumThreads
Nil       == 0                                  \* the nil *mongoSocket
Masters   == 1..NumMasters
Slaves    == (NumMasters + 1)..(NumMasters + NumSlaves)
Sockets   == Masters \cup Slaves
NoPanic   == ""
ClosedPanic == "Session already closed"
MasterPanic == "setSocket(master) with existing master socket reserved"
SlavePanic  == "setSocket(slave) with existing slave socket reserved"

VARIABLES
    session,      \* [SessionId -> Session record]; made is FALSE for a free slot
    refs,         \* [Sockets -> Nat]: the sockets' reference counts
    clusterRefs,  \* the cluster's reference count
    thread,       \* [ThreadId -> record]: goroutines in acquireSocket / an operation
    panicMsg,     \* the panic that aborted the program, NoPanic while it runs
    wrote,        \* history: a write succeeded in this Monotonic session on
                  \* a socket the session has kept since (no refresh between)
    last          \* history: the call that made the last step, when it is a
                  \* copy of a session, a failed acquireSocket, a SetMode
                  \* that takes a session with a secondary out of Eventual,
                  \* a SetSafe or EnsureSafe, a Limit or a writeQuery

VARIABLES
    query,        \* the Query of c.Find(...): limit, op.limit, op.skip, prefetch
    iter,         \* the Iter made from the query; made is FALSE before Iter/Tail
    caller,       \* the goroutine calling Next: outside, or in gotReply.Wait()
    net,          \* the server's cursor, the requests sent to it and the
                  \* replies not yet handed to the reply callback
    seen,         \* history: what Iter took from the query, what Next and
                  \* Close returned
    index         \* the cluster's index cache, the EnsureIndex and DropIndex
                  \* calls in progress and the requests they sent

sessionVars == <<session, refs, clusterRefs, thread, wrote>>
cursorVars == <<query, iter, caller, net, seen>>
vars == <<session, refs, clusterRefs, thread, panicMsg, wrote, last,
          query, iter, caller, net, seen, index>>

\* ------------------------------------------------ collaborators (from spec)
\* mongoSocket.Acquire: one more reference.
SocketAcquire(r, k) == [r EXCEPT ![k] = @ + 1]
\* mongoSocket.Release: one reference fewer.
SocketRelease(r, k) == [r EXCEPT ![k] = @ - 1]
\* socket.Acquire().Master: the role of the socket's server.
IsMaster(k) == k \in Masters
\* socket.Server(): the server socket k is connected to, the primary (1) or
\* the secondary (2).
ServerOf(k) == IF IsMaster(k) THEN 1 ELSE 2
\* mongoServer.AcquireSocket: the sockets server may hand out.
ServerSockets(server) == {k \in Sockets : ServerOf(k) = server}
\* mongoCluster.AcquireSocket(preferSecondary, ...): the sockets it may hand
\* out; a primary whenever a secondary is not requested.
ClusterSockets(preferSecondary) == IF preferSecondary THEN Sockets ELSE Masters

\* ------------------------------------------------------------- Safe / query
\* Safe{W, WMode, WTimeout, FSync, J}
SafeZero == [W |-> 0, WMode |-> "", WTimeout |-> 0, FSync |-> FALSE, J |-> FALSE]
NilSafe  == [nil |-> TRUE]
NilOp    == [nilOp |-> TRUE]

\* The w of ensureSafe: safe.WMode when set, else safe.W when positive, else
\* nil.  cmd.W is an interface holding nil, an int (> 0) or a string
\* (non-empty); it is kept as the pair (W, WMode) with (0, "") for nil.
safeW(safe) ==
    IF safe.WMode # "" THEN [W |-> 0, WMode |-> safe.WMode]
    ELSE IF safe.W > 0 THEN [W |-> safe.W, WMode |-> ""]
    ELSE [W |-> 0, WMode |-> ""]

\* The merge of W that takes any positive safe.W over a numeric cmd.W.
mergeW_NoCompare(cmd, safe) ==
    IF cmd.W = 0 /\ cmd.WMode = "" THEN safeW(safe)
    ELSE IF safe.WMode # "" THEN [W |-> 0, WMode |-> safe.WMode]
    ELSE IF cmd.WMode = "" /\ safe.W > 0 THEN [W |-> safe.W, WMode |-> ""]
    ELSE [W |-> cmd.W, WMode |-> cmd.WMode]

\* The merge of W without the test that cmd.W holds an int.
mergeW_NumberOverMode(cmd, safe) ==
    IF cmd.W = 0 /\ cmd.WMode = "" THEN safeW(safe)
    ELSE IF safe.WMode # "" THEN [W |-> 0, WMode |-> safe.WMode]
    ELSE IF safe.W > cmd.W THEN [W |-> safe.W, WMode |-> ""]
    ELSE [W |-> cmd.W, WMode |-> cmd.WMode]

\* ensureSafe, the merge of cmd.W with safe (an existing safeOp).
mergeW(cmd, safe) ==
    IF cmd.W = 0 /\ cmd.WMode = "" THEN safeW(safe)
    ELSE IF safe.WMode # "" THEN [W |-> 0, WMode |-> safe.WMode]
    ELSE IF cmd.WMode = "" /\ safe.W > cmd.W THEN [W |-> safe.W, WMode |-> ""]
    ELSE [W |-> cmd.W, WMode |-> cmd.WMode]

\* The merge of WTimeout that takes any positive safe.WTimeout.
mergeWTimeout_NoCompare(cmd, safe) ==
    IF safe.WTimeout > 0 THEN safe.WTimeout ELSE cmd.WTimeout

\* ensureSafe, the merge of cmd.WTimeout with safe.
mergeWTimeout(cmd, safe) ==
    IF safe.WTimeout > 0 /\ safe.WTimeout < cmd.WTimeout
    THEN safe.WTimeout ELSE cmd.WTimeout

\* ensureSafe, the merge of cmd.FSync and cmd.J with safe.
mergeFSync(cmd, safe) == IF safe.FSync THEN TRUE ELSE cmd.FSync
mergeJ(cmd, safe) ==
    IF safe.FSync THEN FALSE
    ELSE IF safe.J /\ ~cmd.FSync THEN TRUE ELSE cmd.J

\* Session.ensureSafe: the getLastError command of the safeOp after merging
\* safe into safeOp.
ensureSafe(safeOp, safe) ==
    IF safe = NilSafe THEN safeOp
    ELSE IF safeOp = NilOp
         THEN [W |-> safeW(safe).W, WMode |-> safeW(safe).WMode,
               WTimeout |-> safe.WTimeout, FSync |-> safe.FSync, J |-> safe.J]
         ELSE [W |-> mergeW(safeOp, safe).W, WMode |-> mergeW(safeOp, safe).WMode,
               WTimeout |-> mergeWTimeout(safeOp, safe),
               FSync |-> mergeFSync(safeOp, safe), J |-> mergeJ(safeOp, safe)]

\* The queryOp that ensureSafe stores in s.safeOp around the command.
safeQueryOp(cmd) == [query |-> cmd, collection |-> "admin.$cmd", limit |-> -1]

\* Session.Safe(): nil without a safeOp, else the command's fields, with W
\* or WMode from the type of cmd.W.
Safe(safeOp) ==
    IF safeOp = NilOp THEN NilSafe
    ELSE [W |-> IF safeOp.WMode = "" /\ safeOp.W # 0 THEN safeOp.W ELSE 0,
          WMode |-> IF safeOp.WMode # "" THEN safeOp.WMode ELSE "",
          WTimeout |-> safeOp.WTimeout, FSync |-> safeOp.FSync, J |-> safeOp.J]

\* ------------------------------------------------------------ session record
\* authInfo{db, user, pass}, and the credentials of the dial URL.
AuthInfo(db, user, pass) == [db |-> db, user |-> user, pass |-> pass]
DialAuth == AuthInfo("admin", "dial", "dial")

NoSession ==
    [made |-> FALSE, cluster_ |-> FALSE, masterSocket |-> Nil, slaveSocket |-> Nil,
     slaveOk |-> FALSE, consistency |-> Eventual,
     queryConfig |-> [limit |-> 0, prefetch |-> 0], safeOp |-> NilOp,
     auth |-> <<>>]

\* unsetSocket that forgets the reference on the reserved secondary.
unsetSocket_MasterOnly(st) ==
    LET r1 == IF st.s.masterSocket # Nil
              THEN SocketRelease(st.refs, st.s.masterSocket) ELSE st.refs
    IN [s |-> [st.s EXCEPT !.masterSocket = Nil, !.slaveSocket = Nil], refs |-> r1]

\* Session.unsetSocket: releases any reserved socket.  st = [s, refs].
unsetSocket(st) ==
    LET r1 == IF st.s.masterSocket # Nil
              THEN SocketRelease(st.refs, st.s.masterSocket) ELSE st.refs
        r2 == IF st.s.slaveSocket # Nil
              THEN SocketRelease(r1, st.s.slaveSocket) ELSE r1
    IN [s |-> [st.s EXCEPT !.masterSocket = Nil, !.slaveSocket = Nil], refs |-> r2]

\* Session.Refresh, as a function of the session and the reference counts.
RefreshSt(st) ==
    unsetSocket([st EXCEPT !.s.slaveOk = (st.s.consistency # Strong)])

\* SetMode without its Strong branch: slaveOk is left to the last test.
SetModeSt_NoStrongBranch(st, consistency, refresh) ==
    LET s1 == [st.s EXCEPT !.consistency = consistency]
    IN IF refresh
       THEN unsetSocket([st EXCEPT !.s = [s1 EXCEPT !.slaveOk = (consistency # Strong)]])
       ELSE IF s1.masterSocket = Nil
       THEN [st EXCEPT !.s = [s1 EXCEPT !.slaveOk = TRUE]]
       ELSE [st EXCEPT !.s = s1]

\* SetMode whose refresh resets slaveOk but forgets unsetSocket.
SetModeSt_NoUnset(st, consistency, refresh) ==
    LET s1 == [st.s EXCEPT !.consistency = consistency]
    IN IF refresh
       THEN [st EXCEPT !.s = [s1 EXCEPT !.slaveOk = (consistency # Strong)]]
       ELSE IF consistency = Strong
       THEN [st EXCEPT !.s = [s1 EXCEPT !.slaveOk = FALSE]]
       ELSE IF s1.masterSocket = Nil
       THEN [st EXCEPT !.s = [s1 EXCEPT !.slaveOk = TRUE]]
       ELSE [st EXCEPT !.s = s1]

\* Session.SetMode(consistency, refresh)
SetModeSt(st, consistency, refresh) ==
    LET s1 == [st.s EXCEPT !.consistency = consistency]
    IN IF refresh
       THEN unsetSocket([st EXCEPT !.s = [s1 EXCEPT !.slaveOk = (consistency # Strong)]])
       ELSE IF consistency = Strong
       THEN [st EXCEPT !.s = [s1 EXCEPT !.slaveOk = FALSE]]
       ELSE IF s1.masterSocket = Nil
       THEN [st EXCEPT !.s = [s1 EXCEPT !.slaveOk = TRUE]]
       ELSE [st EXCEPT !.s = s1]

\* copySession that copies the socket pointers without Acquire.
copySession_NoAcquire(st, keepAuth) == [s |-> st.s, refs |-> st.refs]

\* copySession: the copy shares the reserved sockets and takes a reference
\* on each.  With keepAuth false only the dial credentials are kept; Login
\* is not called on a session that is copied, so auth is the dial
\* credentials in both cases.
copySession(st, keepAuth) ==
    LET r1 == IF st.s.masterSocket # Nil
              THEN SocketAcquire(st.refs, st.s.masterSocket) ELSE st.refs
        r2 == IF st.s.slaveSocket # Nil
              THEN SocketAcquire(r1, st.s.slaveSocket) ELSE r1
    IN [s |-> st.s, refs |-> r2]

\* newSession + DialWithInfo: the session Dial returns for a URL that
\* carries credentials (without them socketLogin has nothing to fail on,
\* and the session behaves as this one does when every login succeeds).
DialSession ==
    [made |-> TRUE, cluster_ |-> TRUE, masterSocket |-> Nil, slaveSocket |-> Nil,
     slaveOk |-> FALSE, consistency |-> Strong,
     queryConfig |-> [limit |-> 0, prefetch |-> defaultPrefetch],
     safeOp |-> ensureSafe(NilOp, SafeZero),
     auth |-> <<DialAuth>>]

\* The dialed session after the application configured it: SetSafe(safe)
\* and, with n > 0, SetBatch(n).
Configured(s, safe, n) ==
    [s EXCEPT !.safeOp = ensureSafe(NilOp, safe),
              !.queryConfig.limit = IF n = 1 THEN 2 ELSE n]

Configs == {<<SafeZero, 0>>, <<NilSafe, 1>>}

IdleThread ==
    [pc |-> "idle", session |-> 0, op |-> "", dbname |-> "", socket |-> Nil]

NilErr == [type |-> "nil"]

\* Collection.Find: the Query starts as a copy of the session's queryConfig.
Find(s) ==
    [limit |-> 0, op |-> [limit |-> s.queryConfig.limit, skip |-> 0],
     prefetch |-> s.queryConfig.prefetch]

\* The zero Iter, before Query.Iter or Query.Tail made one.  m is the
\* iterator's mutex: TRUE while a goroutine that left Next holds it.
NoIter ==
    [made |-> FALSE, m |-> FALSE, err |-> NilErr, docData |-> <<>>,
     op |-> [limit |-> 0, cursorId |-> 0], prefetch |-> 0, limit |-> 0,
     docsToReceive |-> 0, docsBeforeMore |-> 0, timeout |-> 0,
     timedout |-> FALSE, server |-> Nil]

\* The goroutine that calls Next, outside of Next.
NoCaller == [pc |-> "idle", deadline |-> FALSE, woken |-> FALSE]

\* The server without a cursor, and nothing on the wire.
NoNet ==
    [docs |-> 0, served |-> 0, cursor |-> 0, tailable |-> FALSE,
     pending |-> <<>>, sent |-> <<>>]

NoneSeen ==
    [limit |-> 0, opLimit |-> 0, prefetch |-> 0, returned |-> <<>>,
     latched |-> FALSE, latchedErr |-> NilErr, queue |-> <<>>, after |-> <<>>,
     closes |-> <<>>, moved |-> FALSE, timeouts |-> 0, atTimeout |-> 0,
     pushed |-> <<>>, ended |-> FALSE]

\* The cluster's index cache when the cluster is made, no call in progress.
NoIndexCall == [pc |-> "idle", key |-> <<>>, had |-> FALSE, raced |-> FALSE]
NoIndex == [cache |-> {}, call |-> [t \in ThreadId |-> NoIndexCall]]

NoCall == [op |-> "", session |-> 0, to |-> 0, err |-> ""]
Call(op, i, n, err) == [op |-> op, session |-> i, to |-> n, err |-> err]

InitSession(cfgs) ==
    /\ \E c \in cfgs :
         /\ session = [i \in SessionId |->
                         IF i = 1 THEN Configured(DialSession, c[1], c[2])
                         ELSE NoSession]
         /\ query = Find(Configured(DialSession, c[1], c[2]))
    /\ refs = [k \in Sockets |-> 0]
    /\ clusterRefs = 1
    /\ thread = [t \in ThreadId |-> IdleThread]
    /\ panicMsg = NoPanic
    /\ wrote = [i \in SessionId |-> FALSE]
    /\ last = NoCall
    /\ index = NoIndex

\* The state after Dial and c.Find(...), with docs documents in c.
InitDocs(cfgs, docs) ==
    /\ InitSession(cfgs)
    /\ iter = NoIter
    /\ caller = NoCaller
    /\ net = [NoNet EXCEPT !.docs = docs]
    /\ seen = NoneSeen

InitWith(cfgs) == InitDocs(cfgs, 0)

Init == InitWith({<<SafeZero, 0>>})
InitConfigured == InitWith(Configs)

Running == panicMsg = NoPanic
Made(i) == session[i].made
Open(i) == Made(i) /\ session[i].cluster_

\* A step of session i alone: its record and the reference counts change.
Put(i, st) ==
    /\ session' = [session EXCEPT ![i] = st.s]
    /\ refs' = st.refs

Panic(msg) ==
    /\ panicMsg' = msg
    /\ last' = NoCall
    /\ UNCHANGED <<session, refs, clusterRefs, thread, wrote>>

\* ----------------------------------------------------------- session methods
SetMode(i, consistency, refresh) ==
    /\ Running /\ Made(i)
    /\ Put(i, SetModeSt([s |-> session[i], refs |-> refs], consistency, refresh))
    /\ wrote' = IF refresh \/ consistency # Monotonic
                THEN [wrote EXCEPT ![i] = FALSE] ELSE wrote
    /\ last' = IF /\ refresh /\ consistency = Strong
                  /\ session[i].consistency = Eventual
                  /\ session[i].slaveSocket # Nil
               THEN Call("SetMode", i, 0, "") ELSE NoCall
    /\ UNCHANGED <<clusterRefs, thread, panicMsg>>
    /\ UNCHANGED <<cursorVars, index>>

Refresh(i) ==
    /\ Running /\ Made(i)
    /\ Put(i, RefreshSt([s |-> session[i], refs |-> refs]))
    /\ wrote' = [wrote EXCEPT ![i] = FALSE]
    /\ last' = NoCall
    /\ UNCHANGED <<clusterRefs, thread, panicMsg>>
    /\ UNCHANGED <<cursorVars, index>>

\* The record of a SetSafe or EnsureSafe call: its argument and the safeOp
\* it found.
SafeCall(op, i, safe) ==
    [op |-> op, session |-> i, to |-> 0, err |-> "", safe |-> safe,
     before |-> session[i].safeOp]

\* SetSafe that merges into the safeOp it finds.
SetSafe_NoReset(i, safe) ==
    /\ Running /\ Made(i)
    /\ session' = [session EXCEPT ![i].safeOp = ensureSafe(@, safe)]
    /\ UNCHANGED <<refs, clusterRefs, thread, panicMsg, wrote>>
    /\ last' = SafeCall("SetSafe", i, safe)
    /\ UNCHANGED <<cursorVars, index>>

\* Session.SetSafe(safe)
SetSafe(i, safe) ==
    /\ Running /\ Made(i)
    /\ session' = [session EXCEPT ![i].safeOp = ensureSafe(NilOp, safe)]
    /\ UNCHANGED <<refs, clusterRefs, thread, panicMsg, wrote>>
    /\ last' = SafeCall("SetSafe", i, safe)
    /\ UNCHANGED <<cursorVars, index>>

\* Session.EnsureSafe(safe)
EnsureSafe(i, safe) ==
    /\ Running /\ Made(i)
    /\ session' = [session EXCEPT ![i].safeOp = ensureSafe(@, safe)]
    /\ UNCHANGED <<refs, clusterRefs, thread, panicMsg, wrote>>
    /\ last' = SafeCall("EnsureSafe", i, safe)
    /\ UNCHANGED <<cursorVars, index>>

\* Session.SetBatch(n)
SetBatch(i, n) ==
    /\ Running /\ Made(i)
    /\ session' = [session EXCEPT ![i].queryConfig.limit = IF n = 1 THEN 2 ELSE n]
    /\ UNCHANGED <<refs, clusterRefs, thread, panicMsg, wrote>>
    /\ last' = NoCall
    /\ UNCHANGED <<cursorVars, index>>

\* Close that drops the cluster but keeps the reserved sockets.
CloseSt_NoUnset(st) == [st EXCEPT !.s.cluster_ = FALSE]

\* Session.Close, as a function of the session and the reference counts.
CloseSt(st) == [unsetSocket(st) EXCEPT !.s.cluster_ = FALSE]

Close(i) ==
    /\ Running /\ Made(i)
    /\ IF session[i].cluster_
       THEN /\ Put(i, CloseSt([s |-> session[i], refs |-> refs]))
            /\ clusterRefs' = clusterRefs - 1
            /\ wrote' = [wrote EXCEPT ![i] = FALSE]
       ELSE UNCHANGED <<session, refs, clusterRefs, wrote>>
    /\ last' = NoCall
    /\ UNCHANGED <<thread, panicMsg>>
    /\ UNCHANGED <<cursorVars, index>>

\* The slot a new session value goes to.
FreeSlot(n) == ~Made(n) /\ \A j \in SessionId : j < n => Made(j)

\* Session.Clone: copySession(s, true)
CloneSt(st) == copySession(st, TRUE)
\* Copy without the Refresh of the copy.
CopySt_NoRefresh(st) == copySession(st, TRUE)
\* Session.Copy: copySession(s, true), then Refresh on the copy
CopySt(st) == RefreshSt(copySession(st, TRUE))
\* Session.New: copySession(s, false), then Refresh on the copy
NewSt(st) == RefreshSt(copySession(st, FALSE))

\* The three copying methods; copySession panics in Session.cluster() when
\* the original is closed.
Derive(op, i, n, st) ==
    /\ Running /\ Made(i) /\ FreeSlot(n)
    /\ IF session[i].cluster_
       THEN /\ session' = [session EXCEPT ![n] = st.s]
            /\ refs' = st.refs
            /\ clusterRefs' = clusterRefs + 1
            /\ last' = Call(op, i, n, "")
            /\ UNCHANGED <<thread, panicMsg, wrote>>
       ELSE Panic(ClosedPanic)
    /\ UNCHANGED <<cursorVars, index>>

Clone(i, n) == Derive("Clone", i, n, CloneSt([s |-> session[i], refs |-> refs]))
Copy(i, n)  == Derive("Copy", i, n, CopySt([s |-> session[i], refs |-> refs]))
New(i, n)   == Derive("New", i, n, NewSt([s |-> session[i], refs |-> refs]))

\* ------------------------------------------------------------ acquireSocket
\* The slaveOk argument: reads pass true (Query.One, Query.Iter, ...), as
\* does Database.Login; writeQuery passes dbname == "local".
SlaveOkArg(op, dbname) ==
    \/ op \in {"read", "login", "One", "Iter", "Iter|SlaveOk", "getMore",
               "killCursor"}
    \/ dbname = "local"

\* acquireSocket, under the read lock: which reserved socket is usable.
reservedRLock(s, slaveOk) ==
    IF s.masterSocket # Nil THEN "master"
    ELSE IF s.slaveSocket # Nil /\ s.slaveOk /\ slaveOk THEN "slave"
    ELSE "none"

\* acquireSocket without the second look under the exclusive lock.
reservedLock_NoRecheck(s, slaveOk) == "none"

\* acquireSocket whose second look only knows the reserved primary.
reservedLock_MasterOnly(s, slaveOk) ==
    IF s.masterSocket # Nil THEN "master" ELSE "none"

\* acquireSocket, the same check again under the exclusive lock.
reservedLock(s, slaveOk) ==
    IF s.masterSocket # Nil THEN "master"
    ELSE IF s.slaveSocket # Nil /\ s.slaveOk /\ slaveOk THEN "slave"
    ELSE "none"

\* Session.setSocket: [s, refs, panic]
setSocket(st, socket) ==
    LET r == SocketAcquire(st.refs, socket)
    IN IF IsMaster(socket)
       THEN IF st.s.masterSocket # Nil
            THEN [s |-> st.s, refs |-> r, panic |-> MasterPanic]
            ELSE [s |-> [st.s EXCEPT !.masterSocket = socket], refs |-> r,
                  panic |-> NoPanic]
       ELSE IF st.s.slaveSocket # Nil
            THEN [s |-> st.s, refs |-> r, panic |-> SlavePanic]
            ELSE [s |-> [st.s EXCEPT !.slaveSocket = socket], refs |-> r,
                  panic |-> NoPanic]

\* acquireSocket that keeps track of every new socket.
keepsSocket_Always(s) == TRUE

\* Whether acquireSocket keeps track of the new socket.
keepsSocket(s) == s.consistency # Eventual \/ s.slaveSocket # Nil

\* acquireSocket that does not switch a Monotonic session over to the master.
acquireNew_NoSwitch(st, slaveOk, sock) ==
    IF keepsSocket(st.s) THEN setSocket(st, sock)
    ELSE [s |-> st.s, refs |-> st.refs, panic |-> NoPanic]

\* acquireSocket after the cluster handed out sock (already acquired for
\* the caller) and the login succeeded: [s, refs, panic].
acquireNew(st, slaveOk, sock) ==
    LET kept == IF keepsSocket(st.s) THEN setSocket(st, sock)
                ELSE [s |-> st.s, refs |-> st.refs, panic |-> NoPanic]
    IN IF ~slaveOk /\ kept.s.consistency = Monotonic
       THEN [kept EXCEPT !.s.slaveOk = FALSE]
       ELSE kept

\* The login failure path without sock.Release().
loginFailed_NoRelease(r, sock) == r

\* acquireSocket when socketLogin fails on the new socket: sock.Release().
loginFailed(r, sock) == SocketRelease(r, sock)

Returned(i, op, dbname, sock) ==
    [pc |-> "holding", session |-> i, op |-> op, dbname |-> dbname,
     socket |-> sock]

\* acquireSocket, lines 3211-3224: the fast path under RLock, entered by
\* goroutine t for operation op on session i.
fastPath(t, i, op, dbname) ==
    /\ Running /\ Made(i)
    /\ LET s == session[i]
           which == reservedRLock(s, SlaveOkArg(op, dbname))
           sock == IF which = "master" THEN s.masterSocket ELSE s.slaveSocket
       IN IF which = "none"
          THEN /\ thread' = [thread EXCEPT ![t] =
                               [IdleThread EXCEPT !.pc = "locked", !.session = i,
                                                  !.op = op, !.dbname = dbname]]
               /\ UNCHANGED refs
          ELSE /\ refs' = SocketAcquire(refs, sock)
               /\ thread' = [thread EXCEPT ![t] = Returned(i, op, dbname, sock)]
    /\ last' = NoCall
    /\ UNCHANGED <<session, clusterRefs, panicMsg, wrote>>
    /\ UNCHANGED <<cursorVars, index>>

\* An operation starts with acquireSocket.
acquireSocketRLock(t, i, op, dbname) ==
    /\ thread[t].pc = "idle"
    /\ fastPath(t, i, op, dbname)

\* acquireSocket, lines 3228-3266: under the exclusive lock.  sock is what
\* the cluster hands out (Nil: an error), loginOk the outcome of socketLogin.
acquireSocketLock(t, sock, loginOk) ==
    /\ Running
    /\ thread[t].pc = "locked"
    /\ LET i == thread[t].session
           s == session[i]
           op == thread[t].op
           dbname == thread[t].dbname
           slaveOk == SlaveOkArg(op, dbname)
           which == reservedLock(s, slaveOk)
           pref == slaveOk /\ s.slaveOk
       IN IF which # "none"
          THEN LET k == IF which = "master" THEN s.masterSocket ELSE s.slaveSocket
               IN /\ sock = Nil /\ loginOk
                  /\ refs' = SocketAcquire(refs, k)
                  /\ thread' = [thread EXCEPT ![t] = Returned(i, op, dbname, k)]
                  /\ last' = NoCall
                  /\ UNCHANGED <<session, clusterRefs, panicMsg, wrote>>
          ELSE IF ~s.cluster_
          THEN /\ sock = Nil /\ loginOk
               /\ Panic(ClosedPanic)
          ELSE IF sock = Nil
          THEN /\ loginOk
               /\ thread' = [thread EXCEPT ![t] = IdleThread]
               /\ last' = Call("acquireSocket", i, 0, "no socket")
               /\ UNCHANGED <<session, refs, clusterRefs, panicMsg, wrote>>
          ELSE /\ sock \in ClusterSockets(pref)
               /\ LET r0 == SocketAcquire(refs, sock)
                  IN IF ~loginOk
                     THEN /\ s.auth # <<>>
                          /\ refs' = loginFailed(r0, sock)
                          /\ thread' = [thread EXCEPT ![t] = IdleThread]
                          /\ last' = Call("acquireSocket", i, 0, "auth")
                          /\ UNCHANGED <<session, clusterRefs, panicMsg, wrote>>
                     ELSE LET res == acquireNew([s |-> s, refs |-> r0], slaveOk, sock)
                          IN IF res.panic # NoPanic
                             THEN Panic(res.panic)
                             ELSE /\ session' = [session EXCEPT ![i] = res.s]
                                  /\ refs' = res.refs
                                  /\ thread' = [thread EXCEPT ![t] =
                                                  Returned(i, op, dbname, sock)]
                                  /\ last' = NoCall
                                  /\ UNCHANGED <<clusterRefs, panicMsg, wrote>>
    /\ UNCHANGED <<cursorVars, index>>

\* The operation that asked for the socket ends and the deferred
\* socket.Release() runs; for writeQuery, ok tells whether the write
\* succeeded, and recorded whether the history keeps that (it does when
\* the session still reserves the socket the write ran on, so that a write
\* overtaken by a Refresh does not count as one made after it).
finish(t, ok, recorded) ==
    /\ Running
    /\ thread[t].pc = "holding"
    /\ LET i == thread[t].session
       IN /\ refs' = SocketRelease(refs, thread[t].socket)
          /\ wrote' = IF recorded /\ thread[t].op = "write" /\ ok
                         /\ session[i].consistency = Monotonic
                         /\ thread[t].socket \in {session[i].masterSocket,
                                                  session[i].slaveSocket}
                      THEN [wrote EXCEPT ![i] = TRUE] ELSE wrote
    /\ thread' = [thread EXCEPT ![t] = IdleThread]
    /\ last' = NoCall
    /\ UNCHANGED <<session, clusterRefs, panicMsg>>
    /\ UNCHANGED <<cursorVars, index>>

finishOp(t) == finish(t, TRUE, FALSE)
writeQueryDone(t, ok) == finish(t, ok, TRUE)

Ops      == {<<"read", "db">>, <<"write", "db">>}
OpsLocal == Ops \cup {<<"write", "local">>}

SessionStep ==
    \/ \E i \in SessionId, m \in Modes, r \in BOOLEAN : SetMode(i, m, r)
    \/ \E i \in SessionId : Refresh(i)
    \/ \E i \in SessionId : Close(i)
    \/ \E i, n \in SessionId : Clone(i, n)
    \/ \E i, n \in SessionId : Copy(i, n)
    \/ \E i, n \in SessionId : New(i, n)
    \/ \E t \in ThreadId, sock \in Sockets \cup {Nil}, loginOk \in BOOLEAN :
          acquireSocketLock(t, sock, loginOk)

Next ==
    \/ SessionStep
    \/ \E t \in ThreadId, i \in SessionId, o \in Ops :
          acquireSocketRLock(t, i, o[1], o[2])
    \/ \E t \in ThreadId : finishOp(t)

\* The same program, with writes to the local database as well and with
\* the history of the writes that succeeded.
NextLocal ==
    \/ SessionStep
    \/ \E t \in ThreadId, i \in SessionId, o \in OpsLocal :
          acquireSocketRLock(t, i, o[1], o[2])
    \/ \E t \in ThreadId, ok \in BOOLEAN : writeQueryDone(t, ok)

Spec == Init /\ [][Next]_vars
SpecConfigured == InitConfigured /\ [][Next]_vars
SpecLocal == Init /\ [][NextLocal]_vars

\* ----------------------------------------------------- safety mode, Limit
MaxW        == 2
MaxWTimeout == 2
MaxInt32 == 2147483647
MinInt32 == -MaxInt32 - 1
WModes == {"", "majority", "alldc"}
Safes ==
    {NilSafe} \cup [W : 0..MaxW, WMode : WModes, WTimeout : 0..MaxWTimeout,
                    FSync : BOOLEAN, J : BOOLEAN]

\* int32(-n) for an n of the 32-bit range: the negation wraps at MinInt32.
negInt32(n) == IF n = MinInt32 THEN MinInt32 ELSE -n

\* Limit without the case of the most negative n.
Limit_NoMinCase(q, n) ==
    IF n = 1 THEN [q EXCEPT !.limit = 1, !.op.limit = -1]
    ELSE IF n < 0 THEN [q EXCEPT !.limit = negInt32(n), !.op.limit = n]
    ELSE [q EXCEPT !.limit = n, !.op.limit = n]

\* Query.Limit(n)
Limit(q, n) ==
    IF n = 1 THEN [q EXCEPT !.limit = 1, !.op.limit = -1]
    ELSE IF n = MinInt32 THEN [q EXCEPT !.limit = MaxInt32, !.op.limit = MinInt32 + 1]
    ELSE IF n < 0 THEN [q EXCEPT !.limit = negInt32(n), !.op.limit = n]
    ELSE [q EXCEPT !.limit = n, !.op.limit = n]

LimitInputs ==
    {MinInt32, MinInt32 + 1, -2, -1, 0, 1, 2, MaxInt32 - 1, MaxInt32}

\* c.Find(...).Limit(n) on a collection of session i.
FindLimit(i, n) ==
    /\ Running /\ Made(i)
    /\ last' = [op |-> "Limit", session |-> i, to |-> 0, err |-> "", n |-> n,
                q |-> Limit(Find(session[i]), n)]
    /\ UNCHANGED <<session, refs, clusterRefs, thread, panicMsg, wrote>>
    /\ UNCHANGED <<cursorVars, index>>

NextSafe ==
    \/ \E i \in SessionId, safe \in Safes : SetSafe(i, safe)
    \/ \E i \in SessionId, safe \in Safes : EnsureSafe(i, safe)
    \/ \E i \in SessionId, n \in LimitInputs : FindLimit(i, n)

SpecSafe == Init /\ [][NextSafe]_vars

\* --------------------------------------------------------------- writeQuery
NilLastError == [nilLastError |-> TRUE]
\* An error of the socket (from socket.Query, or handed to the replyFunc).
SocketErr(msg) == IF msg = "" THEN NilErr ELSE [type |-> "error", msg |-> msg]
SendErrs  == {"", "send failed"}
ReplyErrs == {"", "reply failed"}

\* The reply document docData, by what writeQuery and checkQueryError look
\* at: an element errmsg (absent, an empty string, a message), the string
\* $err as first element, err, an assertion with its code, lastErrorObject.
Docs ==
    [errmsg : {"none", "empty", "set"}, dollarErr : {"", "$err text"},
     err : {"", "E11000 duplicate key"}, assertion : BOOLEAN,
     lastErrorObject : BOOLEAN]

\* hasErrMsg(d): d has a string element named errmsg.
hasErrMsg(d) == d.errmsg # "none"

\* bson.Unmarshal(replyData, &result) into a LastError.
LastErrorOf(d) == [Err |-> d.err]

\* checkQueryError(fullname, d) for a fullname that ends in ".$cmd".
checkQueryError(d) ==
    IF ~(d.dollarErr # "" \/ hasErrMsg(d)) THEN NilErr
    ELSE IF d.lastErrorObject
    THEN [type |-> "LastError", value |-> [Err |-> "lastErrorObject"]]
    ELSE IF d.dollarErr = "" /\ d.errmsg # "set" THEN NilErr
    ELSE IF d.assertion
    THEN [type |-> "QueryError", msg |-> "assertion", assertion |-> TRUE]
    ELSE IF d.dollarErr # ""
    THEN [type |-> "QueryError", msg |-> d.dollarErr, assertion |-> FALSE]
    ELSE [type |-> "QueryError", msg |-> "errmsg text", assertion |-> FALSE]

\* The write operation of a writeQuery against database dbname.
WriteOp(dbname) == [write |-> dbname]

\* The copy of safeOp that writeQuery sends, as stored by ensureSafe.
ackQuery_AsStored(safeOp, dbname) == safeQueryOp(safeOp)

\* writeQuery: query := *safeOp; query.collection = dbname + ".$cmd"
ackQuery(safeOp, dbname) ==
    [safeQueryOp(safeOp) EXCEPT !.collection = dbname \o ".$cmd"]

\* The unsafe write that swallows the error of the send.
unsafeWrite_NoError(dbname, sendErr) ==
    [sent |-> <<WriteOp(dbname)>>, waited |-> FALSE,
     lerr |-> NilLastError, err |-> NilErr]

\* writeQuery with safeOp == nil: return nil, socket.Query(op)
unsafeWrite(dbname, sendErr) ==
    [sent |-> <<WriteOp(dbname)>>, waited |-> FALSE,
     lerr |-> NilLastError, err |-> SocketErr(sendErr)]

\* The end of writeQuery that never reports the decoded error.
lastErrorReturn_NoError(result) == [lerr |-> result, err |-> NilErr]

\* writeQuery, the returns after bson.Unmarshal.
lastErrorReturn(result) ==
    IF result.Err # ""
    THEN [lerr |-> result, err |-> [type |-> "LastError", value |-> result]]
    ELSE [lerr |-> result, err |-> NilErr]

\* writeQuery in safe mode: the request, whether it waited for the reply,
\* and what it returns.
safeWrite(safeOp, dbname, sendErr, replyErr, d) ==
    LET sent == <<WriteOp(dbname), ackQuery(safeOp, dbname)>>
        ret ==
          IF sendErr # ""
          THEN [waited |-> FALSE, lerr |-> NilLastError, err |-> SocketErr(sendErr)]
          ELSE IF replyErr # ""
          THEN [waited |-> TRUE, lerr |-> NilLastError, err |-> SocketErr(replyErr)]
          ELSE IF hasErrMsg(d) /\ checkQueryError(d) # NilErr
          THEN [waited |-> TRUE, lerr |-> NilLastError, err |-> checkQueryError(d)]
          ELSE [waited |-> TRUE, lerr |-> lastErrorReturn(LastErrorOf(d)).lerr,
                err |-> lastErrorReturn(LastErrorOf(d)).err]
    IN [sent |-> sent, waited |-> ret.waited, lerr |-> ret.lerr, err |-> ret.err]

\* writeQuery after acquireSocket, for the safeOp it reads from the session.
writeQueryRun(safeOp, dbname, sendErr, replyErr, d) ==
    IF safeOp = NilOp THEN unsafeWrite(dbname, sendErr)
    ELSE safeWrite(safeOp, dbname, sendErr, replyErr, d)

\* Collection.writeQuery from the socket to its return, with the deferred
\* socket.Release(): the send fails or not, the reply callback gets an
\* error or the document d.
writeQuery(t, sendErr, replyErr, d) ==
    /\ Running
    /\ thread[t].pc = "holding" /\ thread[t].op = "write"
    /\ LET i == thread[t].session
           res == writeQueryRun(session[i].safeOp, thread[t].dbname,
                                sendErr, replyErr, d)
       IN /\ refs' = SocketRelease(refs, thread[t].socket)
          /\ wrote' = IF res.err = NilErr
                         /\ session[i].consistency = Monotonic
                         /\ thread[t].socket \in {session[i].masterSocket,
                                                  session[i].slaveSocket}
                      THEN [wrote EXCEPT ![i] = TRUE] ELSE wrote
          /\ last' = [op |-> "writeQuery", session |-> i, to |-> 0, err |-> "",
                      socket |-> thread[t].socket, dbname |-> thread[t].dbname,
                      safeOp |-> session[i].safeOp, sendErr |-> sendErr,
                      replyErr |-> replyErr, doc |-> d, res |-> res]
    /\ thread' = [thread EXCEPT ![t] = IdleThread]
    /\ UNCHANGED <<session, clusterRefs, panicMsg>>
    /\ UNCHANGED <<cursorVars, index>>

WriteSafes ==
    {NilSafe, SafeZero,
     [W |-> 1, WMode |-> "", WTimeout |-> 1, FSync |-> TRUE, J |-> FALSE]}

NextWrite ==
    \/ \E i \in SessionId, safe \in WriteSafes : SetSafe(i, safe)
    \/ \E t \in ThreadId, i \in SessionId, dbname \in {"db", "local"} :
          acquireSocketRLock(t, i, "write", dbname)
    \/ \E t \in ThreadId, sock \in Sockets \cup {Nil}, loginOk \in BOOLEAN :
          acquireSocketLock(t, sock, loginOk)
    \/ \E t \in ThreadId, sendErr \in SendErrs, replyErr \in ReplyErrs, d \in Docs :
          writeQuery(t, sendErr, replyErr, d)

SpecWrite == InitConfigured /\ [][NextWrite]_vars

\* ------------------------------------------------------------ Query and Iter
MaxDocs      == 4     \* documents the collection comes to hold
DefaultBatch == 2     \* documents the server puts in a batch of its own size
MaxRequests  == 5     \* requests an iterator sends before the model stops it

ErrNotFound == [type |-> "error", msg |-> "not found"]
CursorId == 7                                  \* the server's cursor, non-zero

\* The k-th document of the result set, and a document whose first element
\* is the string $err.
Doc(k) ==
    [id |-> k, errmsg |-> "none", dollarErr |-> "", err |-> "",
     assertion |-> FALSE, lastErrorObject |-> FALSE]
ErrDoc == [Doc(0) EXCEPT !.dollarErr = "$err text"]

\* checkQueryError(fullname, d) for the fullname of a plain collection:
\* only a first element $err makes an error.
checkDocError(d) == IF d.dollarErr = "" THEN NilErr ELSE checkQueryError(d)

\* What the server does with a query or a get-more of batch size n, and the
\* calls of the reply callback that the socket's reader will make for it:
\* one per document, one with docNum -1 for an empty reply, one with the
\* error when the connection fails (with "cut": after all but the last
\* document of the batch).
ServerReply(nt, kind, n, cursorId, outcome) ==
    LET dead == kind = "getMore" /\ nt.cursor = 0
        left == nt.docs - nt.served
        size == IF n = 0 THEN DefaultBatch ELSE IF n < 0 THEN -n ELSE n
        k    == IF dead THEN 0 ELSE IF size < left THEN size ELSE left
        c    == IF dead \/ n < 0 THEN 0
                ELSE IF nt.tailable \/ left - k > 0 THEN CursorId ELSE 0
        docEv(j) == [err |-> NilErr, docNum |-> j, replyDocs |-> k,
                     cursorId |-> c, doc |-> Doc(nt.served + j + 1)]
        errEv == [err |-> SocketErr("reply failed"), docNum |-> -1,
                  replyDocs |-> 0, cursorId |-> 0, doc |-> Doc(0)]
        noDocs == [err |-> NilErr, docNum |-> -1, replyDocs |-> 0,
                   cursorId |-> c, doc |-> Doc(0)]
        failed == [err |-> NilErr, docNum |-> 0, replyDocs |-> 1,
                   cursorId |-> 0, doc |-> ErrDoc]
        unread == outcome \in {"reply failed", "$err"}
        evs == IF outcome = "reply failed" THEN <<errEv>>
               ELSE IF outcome = "$err" THEN <<failed>>
               ELSE IF k = 0 THEN <<noDocs>>
               ELSE [j \in 1..k |->
                       IF outcome = "cut" /\ j = k /\ k > 1 THEN errEv
                       ELSE docEv(j - 1)]
    IN [nt EXCEPT !.pending = @ \o evs,
                  !.served = IF unread THEN @ ELSE @ + k,
                  !.cursor = IF outcome = "$err" THEN 0
                             ELSE IF unread THEN @ ELSE c,
                  !.sent = Append(@, [kind |-> kind, limit |-> n,
                                      cursorId |-> cursorId])]

\* What becomes of a request: acquireSocket fails, socket.Query fails, or
\* the request is sent and the server's reply is whole, fails, fails before
\* the last document, or is a $err document.  (A kill-cursor has no reply.)
Unsent   == {"acquire failed", "send failed"}
Outcomes == Unsent \cup {"ok", "reply failed", "cut", "$err"}

\* Query.Batch(n), Query.Prefetch(p), Query.Skip(n)
Batch(q, n) == [q EXCEPT !.op.limit = IF n = 1 THEN 2 ELSE n]
Prefetch(q, p) == [q EXCEPT !.prefetch = p]
Skip(q, n) == [q EXCEPT !.op.skip = n]

\* The iterator Query.Iter and Query.Tail build before they send the query.
\* Iter copies the query's limit and sets the timeout to -1; Tail takes the
\* timeout from its argument and leaves the limit at zero.
NewIter(q, limit, timeout) ==
    [NoIter EXCEPT !.made = TRUE, !.prefetch = q.prefetch, !.limit = limit,
                   !.timeout = timeout, !.op.limit = q.op.limit,
                   !.docsToReceive = 1]

\* The end of Query.Iter and Query.Tail: acquireSocket, socket.Query(&op).
sendQuery(it, nt, q, tailable, outcome) ==
    IF outcome \in Unsent
    THEN [iter |-> [it EXCEPT !.err = SocketErr(outcome)], net |-> nt]
    ELSE [iter |-> it,
          net |-> ServerReply([nt EXCEPT !.tailable = tailable], "query",
                              q.op.limit, 0, outcome)]

\* Iter.getMore
getMore(it, nt, outcome) ==
    IF outcome = "acquire failed"
    THEN [iter |-> [it EXCEPT !.err = SocketErr(outcome)], net |-> nt]
    ELSE LET limit == it.limit - it.docsToReceive - Len(it.docData)
             it1 == IF it.limit > 0 /\ limit < it.op.limit
                    THEN [it EXCEPT !.op.limit = limit] ELSE it
         IN IF outcome = "send failed"
            THEN [iter |-> [it1 EXCEPT !.err = SocketErr(outcome),
                                       !.docsToReceive = @ + 1],
                  net |-> nt]
            ELSE [iter |-> [it1 EXCEPT !.docsToReceive = @ + 1],
                  net |-> ServerReply(nt, "getMore", it1.op.limit,
                                      it1.op.cursorId, outcome)]

\* Iter.killCursor; err is what it returns.
killCursor(it, nt, outcome) ==
    IF it.op.cursorId = 0 THEN [iter |-> it, net |-> nt, err |-> NilErr]
    ELSE LET err == IF outcome \in Unsent THEN SocketErr(outcome) ELSE NilErr
             nt1 == IF outcome \notin Unsent
                    THEN [nt EXCEPT !.cursor = 0,
                                    !.sent = Append(@, [kind |-> "killCursors",
                                                        limit |-> 0,
                                                        cursorId |-> it.op.cursorId])]
                    ELSE nt
             it1 == IF err # NilErr /\ it.err \in {NilErr, ErrNotFound}
                    THEN [it EXCEPT !.err = err] ELSE it
         IN [iter |-> [it1 EXCEPT !.op.cursorId = 0], net |-> nt1, err |-> err]

\* iter.docData.Push(docData): the queue is first in, first out.
Push_Front(docData, d) == <<d>> \o docData
Push(docData, d) == Append(docData, d)

\* The function Iter.replyFunc returns, called with the reply ev.
replyFuncSt(it, ev) ==
    LET it1 == [it EXCEPT !.docsToReceive = @ - 1]
    IN IF ev.err # NilErr THEN [it1 EXCEPT !.err = ev.err]
       ELSE IF ev.docNum = -1
       THEN IF ev.cursorId # 0 THEN [it1 EXCEPT !.op.cursorId = ev.cursorId]
            ELSE [it1 EXCEPT !.err = ErrNotFound]
       ELSE LET rdocs == ev.replyDocs
                docsToProcess == Len(it1.docData) + rdocs
                it2 == IF ev.docNum # 0 THEN it1
                       ELSE [it1 EXCEPT
                               !.docsToReceive = @ + rdocs - 1,
                               !.docsBeforeMore =
                                  IF it1.limit = 0 \/ docsToProcess < it1.limit
                                  THEN docsToProcess - ((it1.prefetch * rdocs) \div 100)
                                  ELSE -1,
                               !.op.cursorId = ev.cursorId]
            IN [it2 EXCEPT !.docData = Push(@, ev.doc)]

\* Iter.Err and the end of Iter.Close: the error they return for iter.err.
errOrNil_Raw(err) == err
errOrNil(err) == IF err = ErrNotFound THEN NilErr ELSE err

LimitPanic == "data remains after limit exhausted"
UnreachablePanic == "unreachable"

\* The branch of Next that gives up at the deadline of a tailable iterator.
timedOut_DropsCursor(it) == [it EXCEPT !.timedout = TRUE, !.op.cursorId = 0]
timedOut(it) == [it EXCEPT !.timedout = TRUE]

\* The loop at the head of Iter.Next, one round: to says whether Next goes
\* on to pop a document, returns at the deadline, or blocks in
\* gotReply.Wait().  deadline: the deadline was set in an earlier round;
\* expired: time.Now() is after it (a deadline of a positive timeout is not
\* over in the round that sets it).
nextWait(it, nt, deadline, expired, outcome) ==
    IF ~(/\ it.err = NilErr /\ Len(it.docData) = 0
         /\ (it.docsToReceive > 0 \/ it.op.cursorId # 0))
    THEN [iter |-> it, net |-> nt, to |-> "pop", deadline |-> deadline]
    ELSE IF it.docsToReceive # 0
    THEN [iter |-> it, net |-> nt, to |-> "wait", deadline |-> deadline]
    ELSE IF it.timeout >= 0 /\ expired /\ (deadline \/ it.timeout = 0)
    THEN [iter |-> timedOut(it), net |-> nt, to |-> "timeout",
          deadline |-> deadline]
    ELSE LET r == getMore(it, nt, outcome)
         IN [iter |-> r.iter, net |-> r.net, to |-> "wait",
             deadline |-> deadline \/ it.timeout >= 0]

\* Iter.Next after its loop: res is what it returns, doc the document it
\* took from the queue (Doc(0) when there was none), panic the panic it
\* ends in.  bson.Unmarshal succeeds: result takes any document.  Next sends
\* one request at most, a kill-cursor or a get-more: outcome is its outcome.
nextPop(it, nt, outcome) ==
    IF Len(it.docData) > 0
    THEN LET d == Head(it.docData)
             it1 == [it EXCEPT !.docData = Tail(@)]
             it2 == IF it1.limit > 0 THEN [it1 EXCEPT !.limit = @ - 1] ELSE it1
             exhausted == it1.limit > 0 /\ it2.limit = 0
         IN IF exhausted /\ Len(it2.docData) > 0
            THEN [iter |-> it2, net |-> nt, res |-> FALSE, doc |-> d,
                  panic |-> LimitPanic]
            ELSE LET k == IF exhausted
                          THEN killCursor([it2 EXCEPT !.err = ErrNotFound], nt, outcome)
                          ELSE [iter |-> it2, net |-> nt, err |-> NilErr]
                 IN IF k.err # NilErr
                    THEN \* return false, iter.m still locked
                         [iter |-> [k.iter EXCEPT !.m = TRUE], net |-> k.net,
                          res |-> FALSE, doc |-> d, panic |-> NoPanic]
                    ELSE LET it3 == k.iter
                             pre == it3.op.cursorId # 0 /\ it3.err = NilErr
                             g == IF pre /\ it3.docsBeforeMore = 0
                                  THEN getMore(it3, k.net, outcome)
                                  ELSE [iter |-> it3, net |-> k.net]
                             it4 == IF pre
                                    THEN [g.iter EXCEPT !.docsBeforeMore = @ - 1]
                                    ELSE g.iter
                             err == checkDocError(d)
                         IN IF err # NilErr
                            THEN [iter |-> IF it4.err = NilErr
                                           THEN [it4 EXCEPT !.err = err] ELSE it4,
                                  net |-> g.net, res |-> FALSE, doc |-> d,
                                  panic |-> NoPanic]
                            ELSE [iter |-> it4, net |-> g.net, res |-> TRUE,
                                  doc |-> d, panic |-> NoPanic]
    ELSE IF it.err # NilErr
    THEN [iter |-> it, net |-> nt, res |-> FALSE, doc |-> Doc(0), panic |-> NoPanic]
    ELSE IF it.op.cursorId = 0
    THEN [iter |-> [it EXCEPT !.err = ErrNotFound], net |-> nt, res |-> FALSE,
          doc |-> Doc(0), panic |-> NoPanic]
    ELSE [iter |-> it, net |-> nt, res |-> FALSE, doc |-> Doc(0),
          panic |-> UnreachablePanic]

IsReal(err) == err \notin {NilErr, ErrNotFound}
Ids(docData) == [j \in 1..Len(docData) |-> docData[j].id]

\* History: the first real error of the iterator with the queue it found,
\* kept when a step takes the iterator from it to it1.
latch(s, it, it1) ==
    IF ~s.latched /\ ~IsReal(it.err) /\ IsReal(it1.err)
    THEN [s EXCEPT !.latched = TRUE, !.latchedErr = it1.err,
                   !.queue = Ids(it1.docData)]
    ELSE s

\* History: Next returned res for doc and left the iterator as it1.
sawNext(s, it1, res, doc) ==
    [s EXCEPT !.returned = IF res THEN Append(@, doc.id) ELSE @,
              !.after = IF s.latched /\ Len(@) <= Len(s.queue)
                        THEN Append(@, [res |-> res, doc |-> doc.id,
                                        err |-> it1.err])
                        ELSE @,
              !.timeouts = IF it1.timedout /\ @ = 0 THEN 1 ELSE @,
              !.atTimeout = IF it1.timedout THEN Len(s.returned) ELSE @,
              !.moved = @ \/ Len(s.closes) > 0,
              !.ended = @ \/ (~res /\ ~it1.timedout)]

\* History: the reply callback was called with ev; pushed lists the
\* documents it was handed, in the order of the calls.
sawReply(s, ev) ==
    IF ev.err = NilErr /\ ev.docNum # -1
    THEN [s EXCEPT !.pushed = Append(@, ev.doc.id)] ELSE s

\* Iter.Next from the lock on (a call) or from gotReply.Wait() on (a woken
\* call) to its next wait, its return or its panic.
nextRun(it, deadline, expired, outcome) ==
    \E w \in {nextWait(it, net, deadline, expired, outcome)} :
    \E p \in {IF w.to = "pop" THEN nextPop(w.iter, w.net, outcome)
              ELSE [iter |-> w.iter, net |-> w.net, res |-> FALSE,
                    doc |-> Doc(0), panic |-> NoPanic]} :
    LET call(res, doc, it1) ==
            [op |-> "Next", session |-> 0, to |-> 0, err |-> "", res |-> res,
             doc |-> doc.id, errBefore |-> iter.err,
             cursorBefore |-> iter.op.cursorId, errAfter |-> it1.err,
             cursorAfter |-> it1.op.cursorId, timedout |-> it1.timedout,
             sent |-> Len(net.sent)]
    IN /\ Len(net.sent) < MaxRequests
       /\ CASE w.to = "wait" ->
                 /\ iter' = w.iter /\ net' = w.net
                 /\ caller' = [pc |-> "wait", deadline |-> w.deadline,
                               woken |-> FALSE]
                 /\ seen' = [latch(seen, iter, w.iter) EXCEPT
                               !.moved = @ \/ Len(seen.closes) > 0]
                 /\ UNCHANGED <<last, panicMsg>>
            [] w.to = "timeout" ->
                 /\ iter' = w.iter /\ net' = w.net /\ caller' = NoCaller
                 /\ seen' = sawNext(seen, w.iter, FALSE, Doc(0))
                 /\ last' = call(FALSE, Doc(0), w.iter)
                 /\ UNCHANGED panicMsg
            [] OTHER ->
                 /\ iter' = p.iter /\ net' = p.net /\ caller' = NoCaller
                 /\ panicMsg' = p.panic
                 /\ seen' = IF p.panic # NoPanic THEN seen
                            ELSE latch(sawNext(seen, p.iter, p.res, p.doc),
                                       iter, p.iter)
                 /\ last' = IF p.panic # NoPanic THEN NoCall
                            ELSE call(p.res, p.doc, p.iter)
       /\ UNCHANGED <<sessionVars, query, index>>

\* Iter.Next is called.
IterNext(expired, outcome) ==
    /\ Running /\ iter.made /\ ~iter.m /\ caller.pc = "idle"
    /\ nextRun([iter EXCEPT !.timedout = FALSE], FALSE, expired, outcome)

\* The Next that waits goes on after a Broadcast of the reply callback.
IterNextWoken(expired, outcome) ==
    /\ Running /\ iter.made /\ ~iter.m /\ caller.pc = "wait" /\ caller.woken
    /\ nextRun(iter, caller.deadline, expired, outcome)

\* The socket's reader calls the reply callback with the next reply.
replyFunc ==
    /\ Running /\ iter.made /\ ~iter.m /\ net.pending # <<>>
    /\ iter' = replyFuncSt(iter, Head(net.pending))
    /\ net' = [net EXCEPT !.pending = Tail(@)]
    /\ caller' = IF caller.pc = "wait" THEN [caller EXCEPT !.woken = TRUE]
                 ELSE caller
    /\ seen' = latch(sawReply(seen, Head(net.pending)), iter, iter')
    /\ UNCHANGED <<sessionVars, panicMsg, last, query, index>>

MaxCloses == 2

\* Iter.Close
IterClose(outcome) ==
    /\ Running /\ iter.made /\ ~iter.m /\ Len(seen.closes) < MaxCloses
    /\ Len(net.sent) < MaxRequests
    /\ \E k \in {killCursor(iter, net, outcome)} :
       LET res == errOrNil(k.iter.err)
       IN /\ iter' = k.iter /\ net' = k.net
          /\ seen' = [latch(seen, iter, k.iter) EXCEPT
                        !.closes = Append(@, [res |-> res,
                                              killed |-> k.net.sent # net.sent]),
                        !.moved = IF Len(seen.closes) = 0 THEN FALSE ELSE @]
          /\ last' = [op |-> "Close", session |-> 0, to |-> 0, err |-> "",
                      res |-> res, errBefore |-> iter.err,
                      errAfter |-> k.iter.err]
    /\ UNCHANGED <<sessionVars, panicMsg, caller, query, index>>

\* Iter.Err
IterErr ==
    /\ Running /\ iter.made /\ ~iter.m
    /\ last' = [op |-> "Err", session |-> 0, to |-> 0, err |-> "",
                res |-> errOrNil(iter.err), errBefore |-> iter.err,
                errAfter |-> iter.err]
    /\ UNCHANGED <<sessionVars, panicMsg, cursorVars, index>>

\* The modifiers of the query: Limit, Batch, Prefetch, Skip.
QueryLimit(n) ==
    /\ Running
    /\ query' = Limit(query, n)
    /\ UNCHANGED <<sessionVars, panicMsg, last, iter, caller, net, seen, index>>

\* Batch on a query whose iterator shares the query's op.
QueryBatch_Shared(n) ==
    /\ Running
    /\ query' = Batch(query, n)
    /\ iter' = IF iter.made THEN [iter EXCEPT !.op.limit = query'.op.limit]
               ELSE iter
    /\ UNCHANGED <<sessionVars, panicMsg, last, caller, net, seen, index>>

QueryBatch(n) ==
    /\ Running
    /\ query' = Batch(query, n)
    /\ UNCHANGED <<sessionVars, panicMsg, last, iter, caller, net, seen, index>>

QueryPrefetch(p) ==
    /\ Running
    /\ query' = Prefetch(query, p)
    /\ UNCHANGED <<sessionVars, panicMsg, last, iter, caller, net, seen, index>>

QuerySkip(n) ==
    /\ Running
    /\ query' = Skip(query, n)
    /\ UNCHANGED <<sessionVars, panicMsg, last, iter, caller, net, seen, index>>

\* Query.Iter and Query.Tail, the one iterator of the model.
startIter(it, tailable, outcome) ==
    \E r \in {sendQuery(it, net, query, tailable, outcome)} :
       /\ Running /\ ~iter.made
       /\ iter' = r.iter /\ net' = r.net
       /\ seen' = latch([seen EXCEPT !.limit = query.limit,
                                     !.opLimit = query.op.limit,
                                     !.prefetch = query.prefetch],
                        NoIter, r.iter)
       /\ UNCHANGED <<sessionVars, panicMsg, last, caller, query, index>>

QueryIter(outcome) == startIter(NewIter(query, query.limit, -1), FALSE, outcome)
QueryTail(timeout, outcome) == startIter(NewIter(query, 0, timeout), TRUE, outcome)

\* Another document is inserted into the collection.
Insert ==
    /\ Running /\ net.docs < MaxDocs /\ (net.tailable \/ ~iter.made)
    /\ net' = [net EXCEPT !.docs = @ + 1]
    /\ UNCHANGED <<sessionVars, panicMsg, last, query, iter, caller, seen, index>>

LimitArgs    == {-2, 1, 2}
BatchArgs    == {0, 2, 3}
PrefetchArgs == {defaultPrefetch, 100}
Timeouts     == {-1, 0, 1}

\* The query is built, before Iter or Tail.
Build ==
    \/ \E n \in LimitArgs : ~iter.made /\ QueryLimit(n)
    \/ \E n \in BatchArgs : ~iter.made /\ QueryBatch(n)
    \/ \E p \in PrefetchArgs : ~iter.made /\ QueryPrefetch(p)

\* The iterator is used while the socket's reader delivers the replies.
Iterate ==
    \/ \E e \in BOOLEAN, o \in Outcomes : IterNext(e, o)
    \/ \E e \in BOOLEAN, o \in Outcomes : IterNextWoken(e, o)
    \/ replyFunc

\* A program that builds a query and iterates over its results.
NextIter ==
    \/ Build
    \/ \E o \in Outcomes : QueryIter(o)
    \/ Iterate

\* A program that iterates over a query and closes the iterator.
NextClose ==
    \/ \E n \in BatchArgs : ~iter.made /\ QueryBatch(n)
    \/ \E o \in Outcomes : QueryIter(o)
    \/ Iterate
    \/ \E o \in Unsent \cup {"ok"} : IterClose(o)
    \/ IterErr

\* A program that tails a capped collection while documents are inserted.
NextTail ==
    \/ \E n \in LimitArgs : ~iter.made /\ QueryLimit(n)
    \/ \E t \in Timeouts, o \in Outcomes : QueryTail(t, o)
    \/ Iterate
    \/ Insert

\* A program that keeps changing the query after Iter.
NextQuery ==
    \/ \E n \in LimitArgs : QueryLimit(n)
    \/ \E n \in BatchArgs : QueryBatch(n)
    \/ \E p \in PrefetchArgs : QueryPrefetch(p)
    \/ \E n \in {0, 1} : QuerySkip(n)
    \/ QueryIter("ok")
    \/ \E t \in {-1, 1} : QueryTail(t, "ok")
    \/ \E e \in BOOLEAN : IterNext(e, "ok")
    \/ \E e \in BOOLEAN : IterNextWoken(e, "ok")
    \/ replyFunc

InitFull == InitDocs({<<SafeZero, 0>>}, MaxDocs)
InitOne  == InitDocs({<<SafeZero, 0>>}, 1)

SpecIter  == InitFull /\ [][NextIter]_vars
SpecClose == InitFull /\ [][NextClose]_vars
SpecTail  == InitOne /\ [][NextTail]_vars
SpecQuery == InitFull /\ [][NextQuery]_vars

\* ------------------------------------------------- EnsureIndex and DropIndex
\* Strings are sequences of one-character strings, so that parseIndexKey
\* works on a key as the code does.  s[a:b] and strings.Index of Go:
Slice(s, a, b) == SubSeq(s, a + 1, b)
IndexOf(s, ch) ==
    IF \E i \in 1..Len(s) : s[i] = ch
    THEN (CHOOSE i \in 1..Len(s) : s[i] = ch /\ \A j \in 1..(i - 1) : s[j] # ch) - 1
    ELSE -1

\* One round of the loop of parseIndexKey: name is the name so far, raw the
\* field.  ok is false where the code returns the "Invalid index key" error.
parseField(name, raw) ==
    LET name1 == IF name # <<>> THEN name \o <<"_">> ELSE name
        c == IndexOf(raw, ":")
        hasKind == raw # <<>> /\ raw[1] = "$" /\ c > 1 /\ c < Len(raw) - 1
        kind == IF hasKind THEN Slice(raw, 1, c) ELSE <<>>
        f1 == IF hasKind THEN Slice(raw, c + 1, Len(raw)) ELSE raw
        name2 == IF hasKind THEN name1 \o f1 \o <<"_">> \o kind ELSE name1
        rest == Slice(f1, 1, Len(f1))
        sw == IF raw = <<>> THEN [field |-> <<>>, order |-> <<>>, name |-> name2]
              ELSE IF f1[1] = "$"
              THEN [field |-> <<>>, order |-> <<>>, name |-> name2]
              ELSE IF f1[1] = "@"
              THEN [field |-> rest, order |-> <<"2", "d">>,
                    name |-> name2 \o rest \o <<"_", "2", "d">>]
              ELSE IF f1[1] = "-"
              THEN [field |-> rest, order |-> <<"-", "1">>,
                    name |-> name2 \o rest \o <<"_", "-", "1">>]
              ELSE LET field == IF f1[1] = "+" THEN rest ELSE f1
                   IN IF kind = <<>>
                      THEN [field |-> field, order |-> <<"1">>,
                            name |-> name2 \o field \o <<"_", "1">>]
                      ELSE [field |-> field, order |-> kind, name |-> name2]
    IN [name |-> sw.name,
        ok |-> ~(sw.field = <<>> \/ (kind # <<>> /\ sw.order # kind))]

RECURSIVE parseFrom(_, _, _)
parseFrom(key, i, name) ==
    IF i > Len(key) THEN [name |-> name, ok |-> name # <<>>]
    ELSE LET f == parseField(name, key[i])
         IN IF f.ok THEN parseFrom(key, i + 1, f.name)
            ELSE [name |-> <<>>, ok |-> FALSE]

\* parseIndexKey: the index name of a key, ok false for an invalid key.
parseIndexKey(key) == parseFrom(key, 1, <<>>)

\* cacheKey := c.FullName + "\x00" + name; NUL stands for the zero byte.
CacheKey(fullName, name) == fullName \o <<"NUL">> \o name

\* The cluster's cache of ensured indexes.
HasCachedIndex(cache, cacheKey) == cacheKey \in cache
CacheIndex(cache, cacheKey, exists) ==
    IF exists THEN cache \cup {cacheKey} ELSE cache \ {cacheKey}

\* EnsureIndex after Insert returned err.
ensureCached_Always(cache, cacheKey, err) == CacheIndex(cache, cacheKey, TRUE)
ensureCached(cache, cacheKey, err) ==
    IF err = NilErr THEN CacheIndex(cache, cacheKey, TRUE) ELSE cache

\* DropIndex before it contacts the server.
dropEvict_Keep(cache, cacheKey) == cache
dropEvict(cache, cacheKey) == CacheIndex(cache, cacheKey, FALSE)

InvalidKey == [type |-> "error", msg |-> "Invalid index key"]
InsertFailed == [type |-> "LastError", msg |-> "insert failed"]
DropFailed == [type |-> "error", msg |-> "dropIndexes failed"]

\* What a step of EnsureIndex, DropIndex or ResetIndexCache leaves in last:
\* had tells whether the cache held the key when the call began, sent
\* whether this step sent a request, raced whether an EnsureIndex for the
\* same key succeeded while the DropIndex call was in progress.
IndexCall(op, phase, cacheKey, err, had, sent, raced) ==
    [op |-> op, session |-> 0, to |-> 0, err |-> err, phase |-> phase,
     key |-> cacheKey, had |-> had, sent |-> sent, raced |-> raced]

\* EnsureIndex is called by goroutine t: the key is parsed, the cache is
\* consulted and, on a miss, the index spec is inserted in system.indexes
\* through a clone of the session that is closed when the call returns.
EnsureIndexCall(t, fullName, key) ==
    /\ Running /\ index.call[t].pc = "idle"
    /\ LET p == parseIndexKey(key)
           cacheKey == CacheKey(fullName, p.name)
           had == cacheKey \in index.cache
       IN IF ~p.ok
          THEN /\ last' = IndexCall("EnsureIndex", "return", <<>>, InvalidKey,
                                    FALSE, FALSE, FALSE)
               /\ UNCHANGED index
          ELSE IF HasCachedIndex(index.cache, cacheKey)
          THEN /\ last' = IndexCall("EnsureIndex", "return", cacheKey, NilErr,
                                    had, FALSE, FALSE)
               /\ UNCHANGED index
          ELSE /\ index' = [index EXCEPT !.call[t] =
                               [pc |-> "Insert", key |-> cacheKey,
                                had |-> had, raced |-> FALSE]]
               /\ last' = IndexCall("EnsureIndex", "call", cacheKey, NilErr,
                                    had, TRUE, FALSE)
    /\ UNCHANGED <<sessionVars, cursorVars, panicMsg>>

\* Insert returns err to EnsureIndex, which caches the index on success.
EnsureIndexReturn(t, err) ==
    /\ Running /\ index.call[t].pc = "Insert"
    /\ LET cacheKey == index.call[t].key
       IN /\ index' = [index EXCEPT
                 !.cache = ensureCached(@, cacheKey, err),
                 !.call = [u \in ThreadId |->
                             IF u = t THEN NoIndexCall
                             ELSE IF /\ index.call[u].pc = "Run"
                                     /\ index.call[u].key = cacheKey
                                     /\ err = NilErr
                             THEN [index.call[u] EXCEPT !.raced = TRUE]
                             ELSE index.call[u]]]
          /\ last' = IndexCall("EnsureIndex", "return", cacheKey, err,
                               index.call[t].had, FALSE, FALSE)
    /\ UNCHANGED <<sessionVars, cursorVars, panicMsg>>

\* DropIndex is called by goroutine t: the key is parsed and its entry
\* taken out of the cache; the server has not been contacted yet.
DropIndexCall(t, fullName, key) ==
    /\ Running /\ index.call[t].pc = "idle"
    /\ LET p == parseIndexKey(key)
           cacheKey == CacheKey(fullName, p.name)
           had == cacheKey \in index.cache
       IN IF ~p.ok
          THEN /\ last' = IndexCall("DropIndex", "return", <<>>, InvalidKey,
                                    FALSE, FALSE, FALSE)
               /\ UNCHANGED index
          ELSE /\ index' = [index EXCEPT
                      !.cache = dropEvict(@, cacheKey),
                      !.call[t] = [pc |-> "Run", key |-> cacheKey,
                                   had |-> had, raced |-> FALSE]]
               /\ last' = IndexCall("DropIndex", "call", cacheKey, NilErr,
                                    had, FALSE, FALSE)
    /\ UNCHANGED <<sessionVars, cursorVars, panicMsg>>

\* DropIndex runs the dropIndexes command through a clone of the session
\* and returns its error, or an error made of ErrMsg when the result is
\* not Ok.
DropIndexReturn(t, err) ==
    /\ Running /\ index.call[t].pc = "Run"
    /\ index' = [index EXCEPT !.call[t] = NoIndexCall]
    /\ last' = IndexCall("DropIndex", "return", index.call[t].key, err,
                         index.call[t].had, TRUE, index.call[t].raced)
    /\ UNCHANGED <<sessionVars, cursorVars, panicMsg>>

\* Session.ResetIndexCache
ResetIndexCache ==
    /\ Running
    /\ index' = [index EXCEPT !.cache = {}]
    /\ last' = IndexCall("ResetIndexCache", "return", <<>>, NilErr,
                         index.cache # {}, FALSE, FALSE)
    /\ UNCHANGED <<sessionVars, cursorVars, panicMsg>>

\* Two collections, and keys: a, +a (the same index), -a, and the invalid
\* keys $a and the one with no field at all.
FullNames == {<<"d", "b", ".", "c">>, <<"d", "b", ".", "d">>}
IndexKeys ==
    {<< <<"a">> >>, << <<"+", "a">> >>, << <<"-", "a">> >>,
     << <<"$", "a">> >>, <<>>}

NextIndex ==
    \/ \E t \in ThreadId, n \in FullNames, k \in IndexKeys :
          EnsureIndexCall(t, n, k)
    \/ \E t \in ThreadId, err \in {NilErr, InsertFailed} :
          EnsureIndexReturn(t, err)
    \/ \E t \in ThreadId, n \in FullNames, k \in IndexKeys :
          DropIndexCall(t, n, k)
    \/ \E t \in ThreadId, err \in {NilErr, DropFailed} : DropIndexReturn(t, err)
    \/ ResetIndexCache

SpecIndex == Init /\ [][NextIndex]_vars

\* ---------------------------------------------------------------------- IsDup
CodeSpan == 8         \* codes tried on each side of a duplicate-key code

\* The errors handed to IsDup: nil, a *LastError, a *QueryError, and an
\* error of another type that carries a code.
DupCodes == {11000, 11001, 12582}
Codes == {0} \cup UNION {(c - CodeSpan)..(c + CodeSpan) : c \in DupCodes}
Errors ==
    {NilErr} \cup [type : {"LastError", "QueryError", "error"}, Code : Codes]

\* IsDup with a type switch that knows *LastError only.
IsDup_LastErrorOnly(err) ==
    err.type = "LastError" /\ err.Code \in {11000, 11001, 12582}

IsDup(err) ==
    CASE err.type = "LastError" ->
            err.Code = 11000 \/ err.Code = 11001 \/ err.Code = 12582
      [] err.type = "QueryError" ->
            err.Code = 11000 \/ err.Code = 11001 \/ err.Code = 12582
      [] OTHER -> FALSE

IsDupCall(err) ==
    /\ Running
    /\ last' = [op |-> "IsDup", session |-> 0, to |-> 0, err |-> "",
                arg |-> err, res |-> IsDup(err)]
    /\ UNCHANGED <<sessionVars, cursorVars, index, panicMsg>>

NextDup == \E err \in Errors : IsDupCall(err)
SpecDup == Init /\ [][NextDup]_vars

\* ------------------------------------------------------------ Login / Logout
\* The entries of auth for database dbname.
AuthFor(auth, dbname) == {j \in 1..Len(auth) : auth[j].db = dbname}

\* Database.Login once socket.Login succeeded.  "for _, a := range
\* session.auth" hands the loop a copy of each element: the assignments to
\* a.user and a.pass change the copy, and session.auth stays as it is.
loginStore(auth, dbname, user, pass) ==
    IF AuthFor(auth, dbname) # {} THEN auth
    ELSE Append(auth, AuthInfo(dbname, user, pass))

\* Database.Logout: the first entry for dbname is taken out.
logoutStore(auth, dbname) ==
    IF AuthFor(auth, dbname) = {} THEN auth
    ELSE LET i == CHOOSE j \in AuthFor(auth, dbname) :
                     \A k \in AuthFor(auth, dbname) : j <= k
         IN SubSeq(auth, 1, i - 1) \o SubSeq(auth, i + 1, Len(auth))

\* Session.socketLogin on a new socket: the logins it tries, up to the
\* first that fails (failAt = 0: none fails).
socketLogin(auth, failAt) ==
    IF failAt \in 1..Len(auth) THEN SubSeq(auth, 1, failAt) ELSE auth

LoginFailed == [type |-> "error", msg |-> "auth fails"]

\* Database.Login from socket.Login on: goroutine t holds the socket that
\* acquireSocket(true) returned; the deferred socket.Release() runs.
DatabaseLogin(t, user, pass, ok) ==
    /\ Running
    /\ thread[t].pc = "holding" /\ thread[t].op = "login"
    /\ LET i == thread[t].session
           dbname == thread[t].dbname
       IN /\ session' = IF ok
                        THEN [session EXCEPT ![i].auth =
                                 loginStore(@, dbname, user, pass)]
                        ELSE session
          /\ last' = [op |-> "Login", session |-> i, to |-> 0, err |-> "",
                      res |-> IF ok THEN NilErr ELSE LoginFailed,
                      auth |-> AuthInfo(dbname, user, pass)]
    /\ refs' = SocketRelease(refs, thread[t].socket)
    /\ thread' = [thread EXCEPT ![t] = IdleThread]
    /\ UNCHANGED <<clusterRefs, panicMsg, wrote, cursorVars, index>>

\* Database.Logout.  What the reserved sockets hold of the login is the
\* server's; the session drops the credentials.
DatabaseLogout(i, dbname) ==
    /\ Running /\ Made(i)
    /\ session' = [session EXCEPT ![i].auth = logoutStore(@, dbname)]
    /\ last' = [op |-> "Logout", session |-> i, to |-> 0, err |-> "",
                res |-> NilErr, auth |-> AuthInfo(dbname, "", "")]
    /\ UNCHANGED <<refs, clusterRefs, thread, panicMsg, wrote, cursorVars, index>>

AuthDbs == {"admin", "db"}
Users == {<<"u1", "p1">>, <<"u2", "p2">>}

NextAuth ==
    \/ \E t \in ThreadId, d \in AuthDbs : acquireSocketRLock(t, 1, "login", d)
    \/ \E t \in ThreadId : acquireSocketRLock(t, 1, "read", "db")
    \/ \E t \in ThreadId, sock \in Sockets \cup {Nil}, loginOk \in BOOLEAN :
          acquireSocketLock(t, sock, loginOk)
    \/ \E t \in ThreadId, u \in Users, ok \in BOOLEAN :
          DatabaseLogin(t, u[1], u[2], ok)
    \/ \E t \in ThreadId : thread[t].op = "read" /\ finishOp(t)
    \/ \E d \in AuthDbs : DatabaseLogout(1, d)
    \/ Refresh(1)

SpecAuth == Init /\ [][NextAuth]_vars

\* ------------------------------------------------- ParseHeader (package github)
\* Header values are tuples of tokens.  A number is a tuple of one-character
\* strings; a Link value is a tuple of the pieces "<", a URL, ">",
\* "; rel=\"...\"" and ", ", a URL being one token that holds neither "<"
\* nor ">".  header.Get gives "" for a header that is not there: <<>>.
Digits == <<"0", "1", "2", "3", "4", "5", "6", "7", "8", "9">>
IsDigit(c) == \E d \in 1..Len(Digits) : Digits[d] = c
DigitVal(c) == (CHOOSE d \in 1..Len(Digits) : Digits[d] = c) - 1

RECURSIVE Itoa(_)
\* The decimal text of n >= 0, as the server writes it into the header.
Itoa(n) == IF n < 10 THEN <<Digits[n + 1]>>
           ELSE Itoa(n \div 10) \o <<Digits[(n % 10) + 1]>>

RECURSIVE digitsValue(_)
digitsValue(s) == IF s = <<>> THEN 0
                  ELSE 10 * digitsValue(SubSeq(s, 1, Len(s) - 1))
                       + DigitVal(s[Len(s)])

\* strconv.Atoi: an optional sign and then one digit or more; anything else
\* is a syntax error and the value is 0.  The values used stay inside the
\* range of int.
Atoi(s) ==
    LET signed == s # <<>> /\ s[1] \in {"+", "-"}
        body == IF signed THEN Tail(s) ELSE s
        ok == body # <<>> /\ \A k \in 1..Len(body) : IsDigit(body[k])
    IN IF ~ok THEN [n |-> 0, err |-> "syntax"]
       ELSE [n |-> IF signed /\ s[1] = "-" THEN 0 - digitsValue(body)
                   ELSE digitsValue(body),
             err |-> ""]

\* getRateLimitRemaining: the error of Atoi is dropped.
getRateLimitRemaining(header) == Atoi(header.remaining).n

\* time.Unix(sec, 0).
Unix(sec) == [sec |-> sec, nsec |-> 0]

\* getRateLimitResetTime: the error of Atoi is dropped.
getRateLimitResetTime(header) == Unix(Atoi(header.reset).n)

Rel(name) == "; rel=\"" \o name \o "\""

\* The places where `<(.*?)>; rel="next"` can start and end in s.
ends(s, i) == {j \in (i + 1)..(Len(s) - 1) : s[j] = ">" /\ s[j + 1] = Rel("next")}
starts(s) == {i \in 1..Len(s) : s[i] = "<" /\ ends(s, i) # {}}
Least(S) == CHOOSE x \in S : \A y \in S : x <= y

\* regexp.FindStringSubmatch with `<(.*?)>; rel="next"`: the match is the
\* leftmost one, so it starts at the first "<" that has the text
\* >; rel="next" anywhere after it; the lazy group then stops at the first
\* such text.  The result is <<match, group>>, or <<>> without a match.
FindStringSubmatch(s) ==
    IF starts(s) = {} THEN <<>>
    ELSE LET i == Least(starts(s))
             j == Least(ends(s, i))
         IN <<SubSeq(s, i, j + 1), SubSeq(s, i + 1, j - 1)>>

\* url.Parse of text made of the tokens above: the URL with that text (the
\* empty URL for "").  The error is dropped by the caller.
urlParse(text) == [raw |-> text]

getNextPageLink(header) ==
    LET next_link_match == FindStringSubmatch(header.link)
        next_page == IF Len(next_link_match) # 0 THEN next_link_match[2]
                     ELSE <<>>
    IN urlParse(next_page)

ParseHeader(header) ==
    [RateLimitRemaining |-> getRateLimitRemaining(header),
     RateLimitReset |-> getRateLimitResetTime(header),
     Next |-> getNextPageLink(header)]

\* The Link value the server writes for a list of links.
RECURSIVE LinkText(_)
LinkText(links) ==
    IF links = <<>> THEN <<>>
    ELSE <<"<", links[1].url, ">", Rel(links[1].rel)>>
         \o (IF Len(links) = 1 THEN <<>> ELSE <<", ">>)
         \o LinkText(Tail(links))

MaxLinks == 3
MaxRate == 12
Rels == {"next", "prev", "last"}
UrlOf(rel) == "https://api.github.com/resource?page=" \o rel
\* Lists of links, each relation at most once, in any order.
LinkLists ==
    {l \in UNION {[1..n -> [url : {UrlOf(r) : r \in Rels}, rel : Rels]] :
                    n \in 0..MaxLinks} :
        /\ \A k \in 1..Len(l) : l[k].url = UrlOf(l[k].rel)
        /\ \A j, k \in 1..Len(l) : j # k => l[j].rel # l[k].rel}
HeaderNumbers == {<<>>, <<"x">>, <<"1", "x">>, <<"-", "3">>}
                 \cup {Itoa(n) : n \in {0, 1, MaxRate}}
Headers == {[remaining |-> r, reset |-> t, link |-> LinkText(l), links |-> l] :
              r \in HeaderNumbers, t \in {<<>>, Itoa(0), Itoa(MaxRate)},
              l \in LinkLists}

ParseHeaderCall(header) ==
    /\ Running
    /\ last' = [op |-> "ParseHeader", session |-> 0, to |-> 0, err |-> "",
                arg |-> header, res |-> ParseHeader(header)]
    /\ UNCHANGED <<sessionVars, cursorVars, index, panicMsg>>

NextHeader == \E header \in Headers : ParseHeaderCall(header)
SpecHeader == Init /\ [][NextHeader]_vars

\* ------------------------------------------------- the slave-ok flag of a query
\* Session.slaveOkFlag
slaveOkFlag(s) == s.slaveOk

\* The operation of a goroutine that runs Query.Iter or Query.Tail, with
\* the flags its queryOp has taken.
IterOp(flag) == IF flag THEN "Iter|SlaveOk" ELSE "Iter"

\* Query.Iter and Query.Tail up to "op.flags |= session.slaveOkFlag()".
IterFlags(t, i) ==
    /\ Running /\ Made(i)
    /\ thread[t].pc = "idle"
    /\ thread' = [thread EXCEPT ![t] =
                    [IdleThread EXCEPT !.pc = "flagged", !.session = i,
                                       !.op = IterOp(slaveOkFlag(session[i])),
                                       !.dbname = "db"]]
    /\ last' = NoCall
    /\ UNCHANGED <<session, refs, clusterRefs, panicMsg, wrote>>
    /\ UNCHANGED <<cursorVars, index>>

\* Query.Iter and Query.Tail go on with session.acquireSocket(true).
IterAcquire(t) ==
    /\ thread[t].pc = "flagged"
    /\ fastPath(t, thread[t].session, thread[t].op, thread[t].dbname)

\* The query is sent on the socket acquired and the socket is released.
\* Iter and Tail send the flags read before acquireSocket; One reads
\* slaveOkFlag now, after acquireSocket.
QuerySend(t) ==
    /\ Running
    /\ thread[t].pc = "holding"
    /\ thread[t].op \in {"One", IterOp(FALSE), IterOp(TRUE)}
    /\ LET i == thread[t].session
           flag == IF thread[t].op = "One" THEN slaveOkFlag(session[i])
                   ELSE thread[t].op = IterOp(TRUE)
       IN last' = [op |-> "Query", session |-> i, to |-> 0, err |-> "",
                   by |-> thread[t].op, socket |-> thread[t].socket,
                   slaveOk |-> flag]
    /\ refs' = SocketRelease(refs, thread[t].socket)
    /\ thread' = [thread EXCEPT ![t] = IdleThread]
    /\ UNCHANGED <<session, clusterRefs, panicMsg, wrote>>
    /\ UNCHANGED <<cursorVars, index>>

\* Goroutines that query one session with One and Iter while others set its
\* mode, refresh it and write through it.
NextFlag ==
    \/ \E m \in Modes, r \in BOOLEAN : SetMode(1, m, r)
    \/ Refresh(1)
    \/ \E t \in ThreadId : IterFlags(t, 1)
    \/ \E t \in ThreadId : IterAcquire(t)
    \/ \E t \in ThreadId, o \in {<<"One", "db">>, <<"write", "db">>} :
          acquireSocketRLock(t, 1, o[1], o[2])
    \/ \E t \in ThreadId, sock \in Sockets \cup {Nil}, loginOk \in BOOLEAN :
          acquireSocketLock(t, sock, loginOk)
    \/ \E t \in ThreadId : QuerySend(t)
    \/ \E t \in ThreadId : thread[t].op = "write" /\ finishOp(t)

SpecFlag == Init /\ [][NextFlag]_vars

\* ------------------------------------------- the sockets of an iterator
IterRequests == {"getMore", "killCursor"}

\* Query.Iter and Query.Tail from socket.Query on: the query is sent on the
\* socket acquired, the iterator keeps the socket's server, the socket is
\* released.  The server answers with a cursor.
IterStart(t) ==
    /\ Running
    /\ thread[t].pc = "holding"
    /\ thread[t].op \in {IterOp(FALSE), IterOp(TRUE)}
    /\ iter' = [NoIter EXCEPT !.made = TRUE, !.op.cursorId = CursorId,
                              !.server = ServerOf(thread[t].socket)]
    /\ refs' = SocketRelease(refs, thread[t].socket)
    /\ thread' = [thread EXCEPT ![t] = IdleThread]
    /\ last' = [op |-> "Iter", session |-> thread[t].session, to |-> 0,
                err |-> "", socket |-> thread[t].socket]
    /\ UNCHANGED <<session, clusterRefs, panicMsg, wrote>>
    /\ UNCHANGED <<query, caller, net, seen, index>>

\* Iter.acquireSocket that uses whatever socket the session hands out.
iterAcquireSocket_AnyServer(r, socket, server, sock, loginOk) ==
    [refs |-> r, socket |-> socket, err |-> ""]

\* Iter.acquireSocket after session.acquireSocket(true) returned socket:
\* sock is what iter.server.AcquireSocket hands out when it is asked (Nil:
\* an error), loginOk the outcome of socketLogin on it.
iterAcquireSocket(r, socket, server, sock, loginOk) ==
    IF ServerOf(socket) = server
    THEN [refs |-> r, socket |-> socket, err |-> ""]
    ELSE LET r1 == SocketRelease(r, socket)
         IN IF sock = Nil THEN [refs |-> r1, socket |-> Nil, err |-> "no socket"]
            ELSE IF ~loginOk
            THEN [refs |-> SocketRelease(SocketAcquire(r1, sock), sock),
                  socket |-> Nil, err |-> "auth"]
            ELSE [refs |-> SocketAcquire(r1, sock), socket |-> sock, err |-> ""]

\* Iter.getMore and Iter.killCursor, entered with the cursor open: the call
\* of session.acquireSocket(true) inside Iter.acquireSocket.
IterRequest(t, kind) ==
    /\ iter.made /\ iter.op.cursorId # 0
    /\ \A u \in ThreadId : thread[u].op \notin IterRequests
    /\ acquireSocketRLock(t, 1, kind, "db")

\* Iter.getMore and Iter.killCursor from the return of
\* session.acquireSocket on: the rest of Iter.acquireSocket, the request on
\* the socket it returns, and the release of that socket.  A request that
\* could not get its socket leaves iter.err set.
IterSend(t, sock, loginOk) ==
    /\ Running
    /\ thread[t].pc = "holding"
    /\ thread[t].op \in IterRequests
    /\ sock \in ServerSockets(iter.server) \cup {Nil}
    /\ sock = Nil => loginOk
    /\ \E a \in {iterAcquireSocket(refs, thread[t].socket, iter.server, sock,
                                   loginOk)} :
         /\ ServerOf(thread[t].socket) = iter.server => sock = Nil /\ loginOk
         /\ refs' = IF a.socket = Nil THEN a.refs
                    ELSE SocketRelease(a.refs, a.socket)
         /\ iter' = [iter EXCEPT
                       !.err = IF a.err # "" /\ (thread[t].op = "getMore"
                                                 \/ @ \in {NilErr, ErrNotFound})
                               THEN SocketErr(a.err) ELSE @,
                       !.op.cursorId = IF thread[t].op = "killCursor" THEN 0
                                       ELSE @]
         /\ last' = [op |-> thread[t].op, session |-> thread[t].session,
                     to |-> 0, err |-> a.err, socket |-> a.socket,
                     from |-> thread[t].socket, server |-> iter.server]
    /\ thread' = [thread EXCEPT ![t] = IdleThread]
    /\ UNCHANGED <<session, clusterRefs, panicMsg, wrote>>
    /\ UNCHANGED <<query, caller, net, seen, index>>

\* A goroutine iterates over a query of a session while the session's mode
\* is set, the session is refreshed and written through.
NextServer ==
    \/ \E m \in Modes, r \in BOOLEAN : SetMode(1, m, r)
    \/ Refresh(1)
    \/ \E t \in ThreadId : ~iter.made /\ IterFlags(t, 1)
    \/ \E t \in ThreadId : IterAcquire(t)
    \/ \E t \in ThreadId : IterStart(t)
    \/ \E t \in ThreadId, kind \in IterRequests : IterRequest(t, kind)
    \/ \E t \in ThreadId, sock \in Sockets \cup {Nil}, loginOk \in BOOLEAN :
          IterSend(t, sock, loginOk)
    \/ \E t \in ThreadId : acquireSocketRLock(t, 1, "write", "db")
    \/ \E t \in ThreadId, sock \in Sockets \cup {Nil}, loginOk \in BOOLEAN :
          acquireSocketLock(t, sock, loginOk)
    \/ \E t \in ThreadId : thread[t].op = "write" /\ finishOp(t)

SpecServer == Init /\ [][NextServer]_vars

\* ===================================================================== claims
TypeOK ==
    /\ \A k \in Sockets : refs[k] \in Nat
    /\ clusterRefs \in Nat
    /\ \A t \in ThreadId : thread[t].pc \in {"idle", "locked", "holding"}

\* acquireSocket returns a socket to goroutine t on this step.
Acquired(t) == thread[t].pc # "holding" /\ thread'[t].pc = "holding"
\* The sessions that reserve socket k, once per role.
Reservations(k) ==
    Cardinality({i \in SessionId : session[i].masterSocket = k})
    + Cardinality({i \in SessionId : session[i].slaveSocket = k})
\* The goroutines that hold socket k for an operation.
Holders(k) ==
    Cardinality({t \in ThreadId : thread[t].pc = "holding" /\ thread[t].socket = k})

\* C1: a session holds at most one reserved primary (in masterSocket) and at
\* most one reserved secondary (in slaveSocket), each of its own role, and
\* setSocket never panics over an already reserved socket.
C1_OneSocketPerRole ==
    /\ panicMsg \notin {MasterPanic, SlavePanic}
    /\ \A i \in SessionId :
         /\ session[i].masterSocket \in Masters \cup {Nil}
         /\ session[i].slaveSocket \in Slaves \cup {Nil}

\* A session reserves a primary and a secondary at once, while another
\* goroutine is inside acquireSocket on it.
C1_Witness ==
    \E i \in SessionId, t \in ThreadId :
        /\ Open(i)
        /\ session[i].masterSocket # Nil /\ session[i].slaveSocket # Nil
        /\ thread[t].pc = "locked" /\ thread[t].session = i

\* C2: while the mode is Strong, slaveOk is false and acquireSocket returns
\* the reserved primary or, with none reserved, a socket the cluster was
\* asked for with preferSecondary false (a primary); never the reserved
\* secondary.
C2_StrongUsesPrimary ==
    /\ [](\A i \in SessionId :
            Made(i) /\ session[i].consistency = Strong => ~session[i].slaveOk)
    /\ [][\A t \in ThreadId :
            Acquired(t) /\ session[thread'[t].session].consistency = Strong =>
               LET s == session[thread'[t].session]
                   sock == thread'[t].socket
               IN /\ sock \in Masters
                  /\ sock # s.slaveSocket
                  /\ s.masterSocket # Nil => sock = s.masterSocket
                  /\ s.masterSocket = Nil =>
                        ~(SlaveOkArg(thread'[t].op, thread'[t].dbname) /\ s.slaveOk)
         ]_vars

\* A read of a Strong session that still has a secondary reserved was given
\* the session's primary.
C2_Witness ==
    \E i \in SessionId, t \in ThreadId :
        /\ Open(i) /\ session[i].consistency = Strong
        /\ session[i].slaveSocket # Nil
        /\ thread[t].pc = "holding" /\ thread[t].session = i
        /\ thread[t].op = "read"
        /\ thread[t].socket = session[i].masterSocket

EvClean(s) ==
    /\ s.consistency = Eventual
    /\ s.masterSocket = Nil /\ s.slaveSocket = Nil
    /\ s.slaveOk

\* C4: SetMode(Eventual, true) leaves nothing reserved; from then on, as
\* long as the mode stays Eventual, no step reserves a socket or clears
\* slaveOk, and every acquireSocket goes to the cluster and leaves the
\* session as it was.
C4_EventualNeverReserves ==
    /\ [][\A i \in SessionId :
            SetMode(i, Eventual, TRUE) => EvClean(session'[i])]_vars
    /\ [][\A i \in SessionId :
            Made(i) /\ EvClean(session[i]) /\ session'[i].consistency = Eventual
            => EvClean(session'[i])]_vars
    /\ [][\A t \in ThreadId :
            Acquired(t) /\ EvClean(session[thread'[t].session])
            => /\ thread[t].pc = "locked"
               /\ session' = session
               /\ refs' = SocketAcquire(refs, thread'[t].socket)]_vars

\* Two operations of one refreshed Eventual session run on different
\* sockets, and the session has none reserved.
C4_Witness ==
    \E i \in SessionId, t1, t2 \in ThreadId :
        /\ Open(i) /\ EvClean(session[i])
        /\ thread[t1].pc = "holding" /\ thread[t1].session = i
        /\ thread[t2].pc = "holding" /\ thread[t2].session = i
        /\ thread[t1].socket # thread[t2].socket

\* A Strong session after a refresh.
StrongClean(s) ==
    /\ s.consistency = Strong
    /\ s.masterSocket = Nil /\ s.slaveSocket = Nil
    /\ ~s.slaveOk

\* C5: SetMode(Strong, true) on an Eventual session, whatever it had
\* reserved, leaves no reserved socket and slaveOk false; a read that gets
\* its socket from a session in that state gets a primary, which the
\* session then reserves.
C5_StrongRefreshReadsPrimary ==
    /\ [][\A i \in SessionId :
            Made(i) /\ session[i].consistency = Eventual /\ SetMode(i, Strong, TRUE)
            => StrongClean(session'[i])]_vars
    /\ [][\A t \in ThreadId :
            Acquired(t) /\ thread'[t].op = "read"
                /\ StrongClean(session[thread'[t].session])
            => /\ thread'[t].socket \in Masters
               /\ session'[thread'[t].session].masterSocket = thread'[t].socket]_vars

\* SetMode(Strong, true) has just run on an Eventual session that had a
\* secondary reserved.
C5_Witness ==
    /\ last.op = "SetMode"
    /\ StrongClean(session[last.session])
    /\ Open(last.session)

\* C6 as stated: SetMode(mode, false) keeps the reserved sockets, except
\* that entering Strong gives up a reserved secondary and releases its
\* reference.
C6_SetModeDropsSecondary ==
    [][\A i \in SessionId, m \in Modes :
          Made(i) /\ SetMode(i, m, FALSE) =>
             LET s == session[i]
             IN /\ session'[i].masterSocket = s.masterSocket
                /\ IF m = Strong /\ s.slaveSocket # Nil
                   THEN /\ session'[i].slaveSocket = Nil
                        /\ refs' = SocketRelease(refs, s.slaveSocket)
                   ELSE /\ session'[i].slaveSocket = s.slaveSocket
                        /\ refs' = refs
      ]_vars

\* C7: an acquireSocket that fails (no socket from the cluster, or the
\* login on the new socket fails) leaves every session, every reference
\* count and the cluster's count as they were.
C7_FailedAcquireChangesNothing ==
    [][\A t \in ThreadId :
          thread[t].pc = "locked" /\ thread'[t].pc = "idle"
          => /\ last'.op = "acquireSocket"
             /\ session' = session
             /\ refs' = refs
             /\ clusterRefs' = clusterRefs
      ]_vars

\* The login on a new socket has just failed for a session that has a
\* secondary reserved, and every count is what the holders account for.
C7_Witness ==
    /\ last.op = "acquireSocket" /\ last.err = "auth"
    /\ session[last.session].slaveSocket # Nil
    /\ \A k \in Sockets : refs[k] = Reservations(k) + Holders(k)

\* C8: Clone gives the new session the original's reserved sockets and one
\* more reference on each; and every socket's count is at all times the
\* number of sessions that reserve it plus the operations that hold it, so
\* while a session reserves a socket no Close or Refresh of another brings
\* its count to zero.
C8_CloneSharesSockets ==
    /\ [](\A k \in Sockets : refs[k] = Reservations(k) + Holders(k))
    /\ [][last'.op = "Clone" =>
            LET s == session[last'.session]
                c == session'[last'.to]
            IN /\ c.masterSocket = s.masterSocket
               /\ c.slaveSocket = s.slaveSocket
               /\ \A k \in Sockets :
                    refs'[k] = refs[k] + (IF s.masterSocket = k THEN 1 ELSE 0)
                                       + (IF s.slaveSocket = k THEN 1 ELSE 0)
         ]_vars

\* Clone has just copied a session that reserves a primary and a secondary.
C8_Witness ==
    /\ last.op = "Clone"
    /\ session[last.to].masterSocket # Nil
    /\ session[last.to].slaveSocket # Nil
    /\ session[last.to].masterSocket = session[last.session].masterSocket
    /\ refs[session[last.to].masterSocket] >= 2

\* C9: Copy and New return a session with nothing reserved, slaveOk from the
\* mode's default, and the original's mode, acknowledgement spec and query
\* defaults; the original and every reference count are as before the call.
C9_CopyStartsFresh ==
    [][last'.op \in {"Copy", "New"} =>
          LET s == session[last'.session]
              c == session'[last'.to]
          IN /\ c.masterSocket = Nil /\ c.slaveSocket = Nil
             /\ c.slaveOk = (s.consistency # Strong)
             /\ c.consistency = s.consistency
             /\ c.safeOp = s.safeOp
             /\ c.queryConfig = s.queryConfig
             /\ c.cluster_
             /\ session'[last'.session] = s
             /\ refs' = refs
      ]_vars

\* Copy or New has just copied a session that has sockets reserved and a
\* configuration of its own.
C9_Witness ==
    /\ last.op \in {"Copy", "New"}
    /\ session[last.session].masterSocket # Nil
    /\ session[last.session].slaveSocket # Nil
    /\ session[last.to].safeOp = NilOp
    /\ session[last.to].queryConfig.limit = 2

\* C10: a closed session has nothing reserved; an acquireSocket on it goes
\* to the exclusive path and never comes back from it, with a socket or
\* with an error: the only step left to it is the panic of
\* Session.cluster(), and no other panic occurs.
C10_ClosedSessionPanics ==
    /\ [](/\ panicMsg \in {NoPanic, ClosedPanic}
          /\ \A i \in SessionId :
               Made(i) /\ ~session[i].cluster_ =>
                  session[i].masterSocket = Nil /\ session[i].slaveSocket = Nil)
    /\ [][\A t \in ThreadId :
            /\ thread[t].pc = "idle" /\ thread'[t].pc # "idle"
                   /\ ~session[thread'[t].session].cluster_
               => thread'[t].pc = "locked"
            /\ thread[t].pc = "locked" /\ ~session[thread[t].session].cluster_
               => thread'[t] = thread[t]
         ]_vars
    /\ [][\A t \in ThreadId, sock \in Sockets \cup {Nil}, ok \in BOOLEAN :
            acquireSocketLock(t, sock, ok) /\ ~session[thread[t].session].cluster_
            => panicMsg' = ClosedPanic]_vars

\* An operation on a closed session has panicked inside acquireSocket (no
\* session slot is free, so the panic is not one of Clone, Copy or New).
C10_Witness ==
    /\ panicMsg = ClosedPanic
    /\ \A n \in SessionId : Made(n)
    /\ \E t \in ThreadId :
          thread[t].pc = "locked" /\ ~session[thread[t].session].cluster_

\* The effective W of a safeOp is a number / a named mode.
IsNumW(op) == op # NilOp /\ op.WMode = "" /\ op.W > 0
IsModeW(op) == op # NilOp /\ op.WMode # ""

\* C14: EnsureSafe(s) on a session whose effective W is a number leaves it,
\* or raises it to a strictly larger s.W, or replaces it by the named mode
\* s.WMode: the number never decreases.
C14_NumericWNeverDecreases ==
    last.op = "EnsureSafe" /\ IsNumW(last.before) =>
       LET old == last.before
           safe == last.safe
           new == session[last.session].safeOp
       IN \/ IsNumW(new) /\ new.W = old.W
          \/ /\ IsNumW(new) /\ safe # NilSafe
             /\ new.W = safe.W /\ safe.W > old.W
          \/ /\ IsModeW(new) /\ safe # NilSafe
             /\ new.WMode = safe.WMode

\* EnsureSafe was offered a smaller positive W than the session's and kept
\* the larger one.
C14_Witness ==
    /\ last.op = "EnsureSafe"
    /\ IsNumW(last.before)
    /\ last.safe # NilSafe
    /\ last.safe.WMode = "" /\ last.safe.W > 0 /\ last.safe.W < last.before.W
    /\ session[last.session].safeOp.W = last.before.W

\* C15: while the effective W is a named mode, an EnsureSafe whose spec has
\* an empty WMode (or is nil) leaves it, whatever its numeric W; the mode
\* changes only by a SetSafe or by an EnsureSafe with a non-empty WMode.
C15_NamedModeStays ==
    /\ [](/\ last.op = "EnsureSafe" /\ IsModeW(last.before)
          /\ (last.safe = NilSafe \/ last.safe.WMode = "")
          => /\ session[last.session].safeOp # NilOp
             /\ session[last.session].safeOp.WMode = last.before.WMode
             /\ session[last.session].safeOp.W = last.before.W)
    /\ [][\A i \in SessionId :
            /\ IsModeW(session[i].safeOp)
            /\ \/ session'[i].safeOp = NilOp
               \/ session'[i].safeOp.WMode # session[i].safeOp.WMode
            => /\ last'.session = i
               /\ \/ last'.op = "SetSafe"
                  \/ /\ last'.op = "EnsureSafe"
                     /\ last'.safe # NilSafe /\ last'.safe.WMode # ""
         ]_vars

\* EnsureSafe was offered the largest numeric W on a session with a named
\* mode, and the mode is still there.
C15_Witness ==
    /\ last.op = "EnsureSafe"
    /\ IsModeW(last.before)
    /\ last.safe # NilSafe
    /\ last.safe.WMode = "" /\ last.safe.W = MaxW
    /\ session[last.session].safeOp.WMode = last.before.WMode

\* C16: an EnsureSafe on a session whose effective WTimeout is positive
\* leaves it positive and no larger than it was.
C16_WTimeoutNeverGrows ==
    /\ last.op = "EnsureSafe"
    /\ last.before # NilOp /\ last.before.WTimeout > 0
    => /\ session[last.session].safeOp # NilOp
       /\ session[last.session].safeOp.WTimeout > 0
       /\ session[last.session].safeOp.WTimeout <= last.before.WTimeout

\* EnsureSafe was offered a larger timeout than the session's positive one,
\* and the session kept its own.
C16_Witness ==
    /\ last.op = "EnsureSafe"
    /\ last.before # NilOp /\ last.before.WTimeout > 0
    /\ last.safe # NilSafe /\ last.safe.WTimeout > last.before.WTimeout
    /\ session[last.session].safeOp.WTimeout = last.before.WTimeout

\* C17 as stated: after EnsureSafe(s) with s.WTimeout > 0 on a session that
\* has an acknowledgement spec, the effective WTimeout is a timeout (not 0)
\* of at most s.WTimeout, whatever it was before.
C17_TimeoutBoundedBySafe ==
    /\ last.op = "EnsureSafe"
    /\ last.safe # NilSafe /\ last.safe.WTimeout > 0
    /\ last.before # NilOp
    => /\ session[last.session].safeOp.WTimeout > 0
       /\ session[last.session].safeOp.WTimeout <= last.safe.WTimeout

\* C18 as stated: after EnsureSafe(s) with s.FSync, from any state of the
\* session, FSync is true and J is false; and an EnsureSafe on a session
\* with FSync true keeps FSync and does not set J.
C18_FSyncDisablesJ ==
    last.op = "EnsureSafe" =>
       LET new == session[last.session].safeOp
       IN /\ last.safe # NilSafe /\ last.safe.FSync
             => new.FSync /\ ~new.J
          /\ last.before # NilOp /\ last.before.FSync
             => new.FSync /\ (new.J => last.before.J)

\* C19: after SetSafe(s), whatever the session had, Safe() returns nil for
\* a nil s and otherwise the WTimeout, FSync and J of s, with the WMode of s
\* (and no W) when it is set, else the W of s when positive (and 0 when
\* not); and EnsureSafe(nil) changes nothing.
C19_SetSafeReplaces ==
    /\ last.op = "SetSafe" =>
          LET got == Safe(session[last.session].safeOp)
              safe == last.safe
          IN IF safe = NilSafe THEN got = NilSafe
             ELSE /\ got # NilSafe
                  /\ got.WTimeout = safe.WTimeout
                  /\ got.FSync = safe.FSync
                  /\ got.J = safe.J
                  /\ got.WMode = safe.WMode
                  /\ got.W = IF safe.WMode = "" /\ safe.W > 0
                             THEN safe.W ELSE 0
    /\ last.op = "EnsureSafe" /\ last.safe = NilSafe
          => session[last.session].safeOp = last.before

\* SetSafe has just replaced a stricter configuration (a named mode, FSync)
\* by a weaker one (W = 1, no FSync).
C19_Witness ==
    /\ last.op = "SetSafe"
    /\ IsModeW(last.before) /\ last.before.FSync
    /\ last.safe # NilSafe
    /\ last.safe.WMode = "" /\ last.safe.W = 1 /\ ~last.safe.FSync
    /\ Safe(session[last.session].safeOp) = last.safe

\* C20: Limit(n) leaves the client-side limit at the magnitude of n, with
\* MaxInt32 for MinInt32, so within 0..MaxInt32; and the batch size at -1 for
\* n = 1, at MinInt32 + 1 for MinInt32, and at n otherwise.
C20_LimitMagnitude ==
    last.op = "Limit" =>
       LET n == last.n
           q == last.q
       IN /\ q.limit = IF n = MinInt32 THEN MaxInt32
                       ELSE IF n < 0 THEN -n ELSE n
          /\ q.limit >= 0 /\ q.limit <= MaxInt32
          /\ q.op.limit = IF n = 1 THEN -1
                          ELSE IF n = MinInt32 THEN MinInt32 + 1
                          ELSE n

\* Limit has just been called with the most negative n.
C20_Witness ==
    /\ last.op = "Limit"
    /\ last.n = MinInt32
    /\ last.q.limit = MaxInt32
    /\ last.q.op.limit = MinInt32 + 1

\* C11: a writeQuery that finds no acknowledgement spec on the session
\* sends a request with the write operation alone, does not wait for a
\* reply, and returns a nil LastError with exactly the error of the send.
C11_UnsafeWriteSendsOnlyTheWrite ==
    last.op = "writeQuery" /\ last.safeOp = NilOp =>
       /\ last.res.sent = <<WriteOp(last.dbname)>>
       /\ ~last.res.waited
       /\ last.res.lerr = NilLastError
       /\ last.res.err = IF last.sendErr = "" THEN NilErr
                         ELSE [type |-> "error", msg |-> last.sendErr]

\* After SetSafe(nil) a write has failed in the send and returned that error.
C11_Witness ==
    /\ last.op = "writeQuery" /\ last.safeOp = NilOp
    /\ last.sendErr # ""
    /\ last.res.err = [type |-> "error", msg |-> last.sendErr]
    /\ session[last.session].safeOp = NilOp

\* C12 as stated: in safe mode the acknowledgement command goes to
\* admin.$cmd, except for a write to the local database, where it goes to
\* local.$cmd; in the same request as the write.
C12_AckToAdmin ==
    last.op = "writeQuery" /\ last.safeOp # NilOp =>
       /\ Len(last.res.sent) = 2
       /\ last.res.sent[1] = WriteOp(last.dbname)
       /\ last.res.sent[2].query = last.safeOp
       /\ last.res.sent[2].collection =
             IF last.dbname = "local" THEN "local.$cmd" ELSE "admin.$cmd"

\* C12 amended: in safe mode the acknowledgement command goes to the command
\* namespace of the database that is written, whatever the database; it is
\* the session's command, sent after the write in the one request made on
\* the socket that acquireSocket returned.
C12_AckToWrittenDatabase ==
    last.op = "writeQuery" /\ last.safeOp # NilOp =>
       /\ Len(last.res.sent) = 2
       /\ last.res.sent[1] = WriteOp(last.dbname)
       /\ last.res.sent[2].query = last.safeOp
       /\ last.res.sent[2].limit = -1
       /\ last.res.sent[2].collection =
             IF last.dbname = "local" THEN "local.$cmd" ELSE "db.$cmd"
       /\ last.socket \in Sockets

\* A safe write to a database other than local has been sent.
C12_Witness ==
    /\ last.op = "writeQuery" /\ last.safeOp # NilOp
    /\ last.dbname = "db"
    /\ last.res.sent[2].collection = "db.$cmd"
    /\ last.res.waited

\* A transport error of a writeQuery: of the send, or of the reply callback.
TransportErr(c) ==
    IF c.sendErr # "" THEN c.sendErr ELSE c.replyErr
\* The reply says that getLastError itself failed: it has an errmsg element
\* and checkQueryError finds an error in it.
CommandFailed(d) ==
    d.errmsg # "none" /\ (d.lastErrorObject \/ d.errmsg = "set" \/ d.dollarErr # "")

C21_NextWithinLimit ==
    iter.made /\ seen.limit > 0 => Len(seen.returned) <= seen.limit

\* C22: Next never finds documents in the queue when it takes the limit to
\* zero: the panic "data remains after limit exhausted" does not happen.
C22_NoDataAfterLimit == panicMsg # LimitPanic

Max(a, b) == IF a > b THEN a ELSE b
GetMores == {j \in 1..Len(net.sent) : net.sent[j].kind = "getMore"}

\* C23: once Iter or Tail returned, a modifier called on the query changes
\* nothing of the iterator or of the wire: the iterator keeps the prefetch
\* ratio it took, counts its limit down from the limit it took, and asks
\* for batches of the size it took (or of what is left of its limit).
C23_IterIgnoresLaterModifiers ==
    /\ [](iter.made /\ Running =>
            /\ iter.prefetch = seen.prefetch
            /\ iter.limit = IF net.tailable THEN 0
                            ELSE Max(0, seen.limit - Len(seen.returned))
            /\ \/ iter.op.limit = seen.opLimit
               \/ iter.limit > 0 /\ iter.op.limit < seen.opLimit
            /\ net.sent[1].limit = seen.opLimit
            /\ \A j \in GetMores :
                  \/ net.sent[j].limit = seen.opLimit
                  \/ /\ seen.limit > 0 /\ ~net.tailable
                     /\ net.sent[j].limit < seen.opLimit
                     /\ net.sent[j].limit <= seen.limit)
    /\ [][iter.made /\ query' # query => iter' = iter /\ net' = net]_vars

\* The query was changed in all its parts after Iter, and the iterator
\* asked for another batch of the size it had taken.
C23_Witness ==
    /\ iter.made /\ Running
    /\ query.limit # seen.limit
    /\ query.prefetch # seen.prefetch
    /\ query.op.skip # 0
    /\ \E j \in GetMores :
          net.sent[j].limit = seen.opLimit /\ query.op.limit # seen.opLimit

\* C24: two calls of Close, with nothing but reply callbacks between them,
\* return the same error and send one kill-cursor request at most.
C24_CloseIdempotent ==
    Len(seen.closes) = 2 /\ ~seen.moved =>
       /\ seen.closes[1].res = seen.closes[2].res
       /\ ~(seen.closes[1].killed /\ seen.closes[2].killed)

\* C25: Err and Close return nil when the iterator's error is nil or
\* ErrNotFound, and the iterator's error as it is otherwise; a real error
\* the iterator had before Close is the one Close returns.
C25_NotFoundIsNil ==
    last.op \in {"Err", "Close"} =>
       /\ last.res = IF last.errAfter \in {NilErr, ErrNotFound} THEN NilErr
                     ELSE last.errAfter
       /\ IsReal(last.errBefore) => last.res = last.errBefore

\* Close has just returned nil for an iterator that ended in ErrNotFound.
C25_Witness ==
    /\ last.op = "Close"
    /\ last.errAfter = ErrNotFound
    /\ last.res = NilErr

\* C26: when an error of the transport becomes the iterator's error while
\* documents are queued, the calls of Next that follow return true for each
\* queued document, in order; the call after them that returns false
\* leaves that error as the iterator's error.
C26_QueuedBeforeError ==
    seen.latched /\ seen.latchedErr.type = "error" /\ seen.queue # <<>> =>
       \A k \in 1..Len(seen.after) :
          IF k <= Len(seen.queue)
          THEN seen.after[k].res /\ seen.after[k].doc = seen.queue[k]
          ELSE seen.after[k].res \/ seen.after[k].err = seen.latchedErr

\* C27: a real error of the iterator, once set, is never replaced.
C27_FirstErrorLatched ==
    [][IsReal(iter.err) => iter'.err = iter.err]_vars

C29_CachedIndexSendsNothing ==
    /\ [](last.op = "EnsureIndex" /\ last.phase = "return" /\ last.err = NilErr
            => last.key \in index.cache)
    /\ [](last.op = "EnsureIndex" /\ last.had =>
            ~last.sent /\ last.phase = "return" /\ last.err = NilErr)
    /\ [][\A k \in index.cache \ index'.cache :
            \/ last'.op = "DropIndex" /\ last'.phase = "call" /\ last'.key = k
            \/ last'.op = "ResetIndexCache"]_vars
    /\ [][\A k \in index'.cache \ index.cache :
            /\ last'.op = "EnsureIndex" /\ last'.phase = "return"
            /\ last'.key = k /\ last'.err = NilErr /\ ~last'.had]_vars
    /\ [](last.op = "EnsureIndex" /\ last.err # NilErr => ~last.had /\
            (last.err = InvalidKey => ~last.sent /\ last.key = <<>>))

\* EnsureIndex has just returned nil without a request for a key the cache
\* held, while another EnsureIndex, for a key not cached, is at the server.
C29_Witness ==
    /\ last.op = "EnsureIndex" /\ last.phase = "return"
    /\ last.had /\ ~last.sent /\ last.err = NilErr
    /\ last.key \in index.cache
    /\ \E t \in ThreadId :
          index.call[t].pc = "Insert" /\ index.call[t].key \notin index.cache

\* C30 as stated: when a DropIndex call with a valid key returns, the
\* cache holds no entry for the key.
C30_DropLeavesNoEntry ==
    last.op = "DropIndex" /\ last.phase = "return" /\ last.err # InvalidKey
       => last.key \notin index.cache

\* C30: DropIndex takes the key's entry out of the cache before it sends
\* anything; when it returns, with or without error, the cache holds no
\* entry for the key unless an EnsureIndex for the same key returned
\* without error while the DropIndex call was in progress; and an
\* EnsureIndex with a valid key that finds no entry sends a creation
\* request.
C30_DropEvictsFirst ==
    /\ [](last.op = "DropIndex" /\ last.phase = "call" =>
            ~last.sent /\ last.key \notin index.cache)
    /\ [](last.op = "DropIndex" /\ last.phase = "return"
            /\ last.err # InvalidKey /\ ~last.raced
            => last.sent /\ last.key \notin index.cache)
    /\ [](last.op = "EnsureIndex" /\ last.err # InvalidKey /\ ~last.had =>
            \/ last.phase = "call" /\ last.sent
            \/ last.phase = "return" /\ ~last.sent)
    /\ [][last'.op = "EnsureIndex" /\ last'.phase = "call" /\ last' # last =>
            \E t \in ThreadId :
               /\ index.call[t].pc = "idle" /\ index'.call[t].pc = "Insert"
               /\ index'.call[t].key = last'.key
               /\ last'.key \notin index.cache]_vars

\* A DropIndex whose command failed has returned: the entry the cache held
\* when it was called is gone.
C30_Witness ==
    /\ last.op = "DropIndex" /\ last.phase = "return"
    /\ last.err = DropFailed /\ last.had /\ ~last.raced
    /\ last.key \notin index.cache

\* ------------------------------------------------------------ claim on IsDup
\* C31: IsDup is true exactly for a *LastError or a *QueryError whose code
\* is 11000, 11001 or 12582; it is false for the other codes, for errors of
\* other types and for nil.
C31_IsDupExactly ==
    last.op = "IsDup" =>
       (last.res <=>
          /\ last.arg # NilErr
          /\ last.arg.type \in {"LastError", "QueryError"}
          /\ last.arg.Code \in DupCodes)

\* IsDup has answered true for a *QueryError with code 12582.
C31_Witness ==
    /\ last.op = "IsDup" /\ last.res
    /\ last.arg = [type |-> "QueryError", Code |-> 12582]

\* C32: as long as no call of Next has returned false for another reason
\* than its deadline, and none has panicked, the documents Next returned
\* followed by the documents in the queue are the documents the reply
\* callback was handed, in the order it was handed them; and at any time
\* the documents returned are handed ones, each once, in that order.
C32_ReceiptOrder ==
    /\ Running /\ ~seen.ended =>
          seen.returned \o Ids(iter.docData) = seen.pushed
    /\ Len(seen.returned) <= Len(seen.pushed)
    /\ \A j \in 1..Len(seen.returned) :
          \E k \in j..Len(seen.pushed) :
             /\ seen.pushed[k] = seen.returned[j]
             /\ j > 1 => \E h \in 1..(k - 1) : seen.pushed[h] = seen.returned[j - 1]
    /\ \A j, k \in 1..Len(seen.returned) :
          j # k => seen.returned[j] # seen.returned[k]

\* Two batches were received and Next has returned every document of both,
\* the second batch asked for while documents of the first were queued.
C32_Witness ==
    /\ Running /\ ~seen.ended
    /\ Len(seen.pushed) = MaxDocs
    /\ seen.returned = seen.pushed
    /\ Cardinality(GetMores) >= 1

\* ---------------------------------------------------------- claim on Login
\* C33: when Login(user, pass) succeeds for a database, the session's
\* credential list then holds one entry for that database, with that user
\* and that password: the credentials socketLogin presents on every socket
\* acquireSocket obtains from then on.
C33_LoginStoresLatest ==
    [][\A t \in ThreadId :
          /\ thread[t].pc = "holding" /\ thread[t].op = "login"
          /\ thread'[t].pc = "idle"
          /\ last'.op = "Login" /\ last'.res = NilErr
          => LET auth == session'[thread[t].session].auth
                 tried == socketLogin(auth, 0)
             IN /\ Cardinality(AuthFor(auth, last'.auth.db)) = 1
                /\ \A j \in 1..Len(tried) :
                      tried[j].db = last'.auth.db => tried[j] = last'.auth]_vars

\* ---------------------------------------------------- claim on ParseHeader
\* The link of the list with the relation "next".
NextLinks(links) == {k \in 1..Len(links) : links[k].rel = "next"}

\* C34: for every header set ParseHeader returns the integer written in
\* X-RateLimit-Remaining, the Unix time written in X-RateLimit-Reset and
\* the URL of the link marked rel="next", whatever other links the Link
\* header holds; a missing header gives 0, Unix time 0 and the empty URL.
C34_ParseHeader ==
    last.op = "ParseHeader" =>
        LET h == last.arg
            r == last.res
        IN /\ \A n \in 0..MaxRate :
                 /\ h.remaining = Itoa(n) => r.RateLimitRemaining = n
                 /\ h.reset = Itoa(n) => r.RateLimitReset = Unix(n)
           /\ h.remaining = <<>> => r.RateLimitRemaining = 0
           /\ h.reset = <<>> => r.RateLimitReset = Unix(0)
           /\ h.link = <<>> => r.Next.raw = <<>>
           /\ \A k \in NextLinks(h.links) : r.Next.raw = <<h.links[k].url>>

\* What holds of the code: the numbers, the missing headers, and the next
\* link whenever no other link stands before it.
C34_NextLinkFirst ==
    last.op = "ParseHeader" =>
        LET h == last.arg
            r == last.res
        IN /\ \A n \in 0..MaxRate :
                 /\ h.remaining = Itoa(n) => r.RateLimitRemaining = n
                 /\ h.reset = Itoa(n) => r.RateLimitReset = Unix(n)
           /\ h.remaining = <<>> => r.RateLimitRemaining = 0
           /\ h.reset = <<>> => r.RateLimitReset = Unix(0)
           /\ NextLinks(h.links) = {} => r.Next.raw = <<>>
           /\ 1 \in NextLinks(h.links) => r.Next.raw = <<h.links[1].url>>

\* ------------------------------------------- claim on a get-more that fails
\* C35: a Next that has to request more data always returns: whenever it
\* waits in gotReply.Wait() a reply is on its way to wake it, and a get-more
\* that fails makes it return false rather than wait.
C35_NextNeverStranded ==
    caller.pc = "wait" /\ ~caller.woken => net.pending # <<>>

\* ------------------------------------------------ claim on the iterator's lock
\* C36: every return of Next releases iter.m: once Next has returned, with
\* any result, the lock is free for the next Next, Close, Err or Timeout and
\* for the reply callback.
C36_NextReleasesLock ==
    last.op = "Next" /\ caller.pc = "idle" => ~iter.m

\* ------------------------------------- claim on concurrent acquireSocket calls
\* The reserved socket of s that a caller passing slaveOk may use, or Nil.
Usable(s, slaveOk) ==
    IF s.masterSocket # Nil THEN s.masterSocket
    ELSE IF s.slaveSocket # Nil /\ s.slaveOk /\ slaveOk THEN s.slaveSocket
    ELSE Nil

\* C38: a goroutine that reaches the exclusive lock of acquireSocket on a
\* Strong or Monotonic session looks at the reservations again: when another
\* caller has reserved a socket it may use meanwhile, it is given that
\* socket with a reference of its own, and nothing is requested from the
\* cluster or reserved; a new socket is reserved only in a slot that is
\* empty, so that at most one is reserved per role.
C38_RecheckUnderLock ==
    [][\A t \in ThreadId :
          /\ thread[t].pc = "locked" /\ thread'[t].pc # "locked"
          /\ session[thread[t].session].consistency \in {Strong, Monotonic}
          => LET i == thread[t].session
                 s == session[i]
                 k == Usable(s, SlaveOkArg(thread[t].op, thread[t].dbname))
                 got == thread'[t].socket
             IN /\ k # Nil =>
                     /\ thread'[t].pc = "holding" /\ got = k
                     /\ session' = session
                     /\ refs' = SocketAcquire(refs, k)
                /\ k = Nil /\ thread'[t].pc = "holding" =>
                     /\ got \notin {s.masterSocket, s.slaveSocket}
                     /\ IF IsMaster(got)
                        THEN s.masterSocket = Nil /\ session'[i].masterSocket = got
                        ELSE s.slaveSocket = Nil /\ session'[i].slaveSocket = got
                     /\ refs'[got] = refs[got] + 2]_vars

\* Two goroutines found nothing reserved on a Monotonic session; the first
\* went on, reserved a secondary and holds it, and the second is at the
\* exclusive lock with that secondary now usable for it.
C38_Witness ==
    \E t, u \in ThreadId :
        /\ t # u /\ thread[t].session = thread[u].session
        /\ thread[t].session \in SessionId
        /\ LET s == session[thread[t].session]
           IN /\ s.consistency = Monotonic /\ s.cluster_
              /\ s.masterSocket = Nil /\ s.slaveSocket # Nil
              /\ thread[t].pc = "locked" /\ thread[t].op = "read"
              /\ thread[u].pc = "holding" /\ thread[u].socket = s.slaveSocket
              /\ refs[s.slaveSocket] = 2

\* ------------------------------------------------ claim on reference counts
\* C39: the reference count of every socket is the number of reservations
\* of it (the primary or secondary slot of a session) plus the number of
\* handles acquireSocket returned that are not released yet; no method of
\* the session leaks a reference or releases one twice.
C39_RefsAreReservationsAndHandles ==
    Running => \A k \in Sockets : refs[k] = Reservations(k) + Holders(k)

\* A socket is reserved by a session and by its clone while a goroutine
\* holds it for an operation, and another goroutine holds a socket that no
\* session reserves (any more): its only reference is the caller's.
C39_Witness ==
    \E k \in Sockets :
        /\ Running
        /\ Reservations(k) = 2 /\ Holders(k) = 1 /\ refs[k] = 3
        /\ \E j \in Sockets \ {k} : Reservations(j) = 0 /\ Holders(j) = 1

\* --------------------------------------------------- claim on the slave-ok flag
\* C40: every query that One, Iter or Tail sends on a socket to a secondary
\* carries the slave-ok flag, whatever SetMode, Refresh and writes other
\* goroutines perform on the session while the query is being sent.
C40_SecondaryQueryHasFlag ==
    last.op = "Query" /\ last.socket \in Slaves => last.slaveOk

\* ------------------------------------------ claim on the iterator's sockets
\* C37: every get-more and every kill-cursor of an iterator goes out on a
\* socket to the server that answered the iterator's query, also when the
\* session hands out a socket to another server by then; and when the
\* request is over, sent or failed, the iterator holds no reference: every
\* count is again the reservations plus the handles of other operations.
C37_RequestsOnCursorServer ==
    last.op \in IterRequests =>
        /\ last.socket # Nil => ServerOf(last.socket) = last.server
        /\ last.socket = Nil <=> last.err # ""
        /\ last.server = iter.server
        /\ \A k \in Sockets : refs[k] = Reservations(k) + Holders(k)

\* The iterator was started on the secondary; the session then handed out
\* its primary for a get-more, and the get-more went to the secondary on a
\* socket the iterator acquired from that server.
C37_Witness ==
    /\ last.op = "getMore" /\ last.err = ""
    /\ IsMaster(last.from) /\ ~IsMaster(last.socket)
    /\ session[1].masterSocket = last.from

====
